---- MODULE Spec2Model ----
(***************************************************************************)
(* BranchFS: the branch manager (src/src/branch.rs), the per-mount view    *)
(* and its FUSE handlers (src/src/fs.rs) and the inode table               *)
(* (src/src/inode.rs), as one state machine.                               *)
(*                                                                         *)
(* Strings are sequences of tokens: "/@b1/a" is <<"/","@","b1","/","a">>.  *)
(* A token is either one of the characters the code inspects ("/", "@")    *)
(* or an opaque run of other characters.                                   *)
(***************************************************************************)
EXTENDS Integers, Sequences, FiniteSets, TLC

\* ------------------------------------------------------------------ bounds
\* Number of operations (manager calls and FUSE requests) in one run: with one
\* mount, with two mounts, with one mount on a storage that fails, and with one
\* mount on a storage whose branch directories already hold changes.
MaxSteps == 3
MaxStepsTwo == 2
MaxStepsFault == 2
MaxStepsStored == 2
MaxStepsDaemon == 4
MaxStepsWorn == 2
MaxStepsNotify == 4
MaxStepsNotifyTwo == 3
MaxStepsCreate == 4
MaxStepsWrite == 4
MaxStepsInode == 3
MaxStepsCli == 4
MaxStepsLocks == 4
MaxStepsCommit == 3

\* ------------------------------------------------------------- the universe
MAIN == <<"main">>
NonMain == {<<"b1">>, <<"b2">>}
Names == NonMain \cup {MAIN}
NoName == <<>>
\* Names a caller may pass that no branch of the trees above bears: one that
\* starts with "@" and one that holds a NUL byte.
AtName == <<"@", "x">>
NulName == <<"NUL">>
\* The names under which a directory may stand in <storage>/branches.
StoreNames == Names \cup {AtName}

Mounts == {"M1", "M2"}

RootPath == <<"/">>
FilePaths == {<<"/", "a">>}
DirPaths == {<<"/", "d">>}
CTL_FILE == <<".branchfs_ctl">>
\* The place in a delta directory or in the base that bears the ctl file's name.
CtlPath == <<"/">> \o CTL_FILE
Paths == FilePaths \cup DirPaths \cup {CtlPath}

\* u64 inode numbers, written from whichever end of the range they are near:
\* Lo(n) is n, Hi(k) is u64::MAX - k.
Lo(n) == [top |-> FALSE, n |-> n]
Hi(k) == [top |-> TRUE, n |-> k]
ROOT_INO == Lo(1)
CTL_INO == Hi(1)
\* fetch_add(1) on an AtomicU64: wraps from u64::MAX to 0.
Succ64(i) == IF i.top THEN (IF i.n = 0 THEN Lo(0) ELSE Hi(i.n - 1)) ELSE Lo(i.n + 1)

BRANCHFS_IOC_COMMIT == "0x4201"
BRANCHFS_IOC_ABORT == "0x4202"

\* ------------------------------------------------------------------- files
Absent == [kind |-> "none", data |-> <<>>]
Dir == [kind |-> "dir", data |-> <<>>]
File(d) == [kind |-> "file", data |-> d]

Max(a, b) == IF a >= b THEN a ELSE b

\* seek(offset); write(data) on a file holding old: the hole, if any, reads "z" (zero).
Overlay(old, off, data) ==
    [i \in 1..Max(Len(old), off + Len(data)) |->
        IF i > off /\ i <= off + Len(data) THEN data[i - off]
        ELSE IF i <= Len(old) THEN old[i]
        ELSE "z"]

\* set_len(size)
SetLen(old, size) ==
    [i \in 1..size |-> IF i <= Len(old) THEN old[i] ELSE "z"]

EmptyFiles == [p \in Paths |-> Absent]
\* A branch directory that does not exist: no files/, no tombstones log.
NoBranchDir == [files |-> EmptyFiles, log |-> <<>>]

\* ---------------------------------------------------------------- strings
StartsWith(s, pre) == Len(s) >= Len(pre) /\ SubSeq(s, 1, Len(pre)) = pre

\* str::find: index of the first token equal to t, 0 when there is none
Find(s, t) ==
    IF \E i \in 1..Len(s) : s[i] = t
    THEN CHOOSE i \in 1..Len(s) : s[i] = t /\ \A j \in 1..(i - 1) : s[j] # t
    ELSE 0


\* str::trim: the white space at both ends dropped
WhiteSpace == {" ", "\n"}
RECURSIVE TrimStart(_)
TrimStart(s) == IF s # <<>> /\ Head(s) \in WhiteSpace THEN TrimStart(Tail(s)) ELSE s
RECURSIVE TrimEnd(_)
TrimEnd(s) ==
    IF s # <<>> /\ s[Len(s)] \in WhiteSpace THEN TrimEnd(SubSeq(s, 1, Len(s) - 1)) ELSE s
Trim(s) == TrimEnd(TrimStart(s))

\* Faulty variant of to_lowercase: the text as it was written.
Verbatim(s) == s
\* str::to_lowercase, on the tokens that hold capitals
LowerOf(t) ==
    CASE t = "COMMIT" -> "commit"
      [] t = "Abort" -> "abort"
      [] t = "SWITCH:" -> "switch:"
      [] t = "B1" -> "b1"
      [] OTHER -> t
to_lowercase(s) == [i \in 1..Len(s) |-> LowerOf(s[i])]

\* The threads that call into one manager and its views.
Threads == {"T1", "T2", "T3"}

\* ------------------------------------------------------------------- state
VARIABLES
    branches,   \* BranchManager.branches: name -> [parent, tombstones]
    store,      \* on disk, <storage>/branches/<name>/{files/, tombstones}
    base,       \* on disk, the base directory
    epoch,      \* BranchManager.epoch
    opened,     \* BranchManager.opened_inodes: name -> set of inode numbers
    wedged,     \* "none", or which side of the branch-tree lock a thread holds for good
                \* or over several steps
    views,      \* BranchFs per mount: branch_name, current_epoch, inodes, alive
    last,       \* the last operation and its reply
    steps,      \* operations so far
    limit,      \* operations in this run
    faulty,     \* whether the storage is one whose I/O can fail
    notifiers,  \* BranchManager.notifiers: the (branch, mountpoint) keys
    daemon,     \* Daemon: mounts, shutdown, and where its run loop stands
    calls       \* per thread, the call it is in the middle of: where it stands,
                \* its locals, the locks it holds

vars == <<branches, store, base, epoch, opened, wedged, views, last, steps, limit, faulty,
          notifiers, daemon, calls>>

\* ------------------------------------------------------------ Branch (store)
\* Branch::load_tombstones
load_tombstones(log) == {log[i] : i \in 1..Len(log)}

\* Branch::new: create_dir_all(files), create the log if missing, load it.
\* An existing directory is taken over as it is.
BranchNew(st, name, parent) ==
    [parent |-> parent, tombstones |-> load_tombstones(st[name].log)]

\* Branch::is_deleted
is_deleted(brs, b, p) == p \in brs[b].tombstones

\* Branch::has_delta: delta_path(rel).exists(); delta_path("/") is files/ itself
DeltaNode(st, b, p) ==
    IF p = RootPath THEN Dir ELSE IF p \in Paths THEN st[b].files[p] ELSE Absent
has_delta(st, b, p) == DeltaNode(st, b, p).kind # "none"

BaseNode(bs, p) ==
    IF p = RootPath THEN Dir ELSE IF p \in Paths THEN bs[p] ELSE Absent

\* ------------------------------------------------------------ BranchManager
is_branch_valid(brs, name) == name \in DOMAIN brs

Fuel == Cardinality(StoreNames) + 1

\* BranchManager::get_branch_chain.  st is "ok", "err" (NotFound) or "hang"
\* (the parent links form a cycle and the loop never ends).
RECURSIVE ChainWalk(_, _, _, _)
ChainWalk(brs, cur, acc, fuel) ==
    IF fuel = 0 THEN [st |-> "hang", chain |-> acc]
    ELSE LET acc2 == Append(acc, cur) IN
         IF cur \notin DOMAIN brs THEN [st |-> "err", chain |-> acc2]
         ELSE IF brs[cur].parent = NoName THEN [st |-> "ok", chain |-> acc2]
         ELSE ChainWalk(brs, brs[cur].parent, acc2, fuel - 1)

get_branch_chain(brs, start) == ChainWalk(brs, start, <<>>, Fuel)

\* BranchManager::resolve_path.  tag is "delta" (in branch br), "base", "none"
\* (Ok(None)), "err" (NotFound) or "hang".
Res(tag, br) == [tag |-> tag, br |-> br]

RECURSIVE ResolveWalk(_, _, _, _, _, _)
ResolveWalk(brs, st, bs, cur, p, fuel) ==
    IF fuel = 0 THEN Res("hang", NoName)
    ELSE IF cur \notin DOMAIN brs THEN Res("err", NoName)
    ELSE IF is_deleted(brs, cur, p) THEN Res("none", NoName)
    ELSE IF has_delta(st, cur, p) THEN Res("delta", cur)
    ELSE IF brs[cur].parent # NoName
         THEN ResolveWalk(brs, st, bs, brs[cur].parent, p, fuel - 1)
    ELSE IF BaseNode(bs, p).kind # "none" THEN Res("base", NoName)
    ELSE Res("none", NoName)

resolve_path(brs, st, bs, b, p) == ResolveWalk(brs, st, bs, b, p, Fuel)

\* What is stored at a resolved place.
NodeAt(st, bs, r, p) ==
    IF r.tag = "delta" THEN DeltaNode(st, r.br, p)
    ELSE IF r.tag = "base" THEN BaseNode(bs, p)
    ELSE Absent

\* BranchManager::collect_changes over chain[i..]: tombstones of every branch
\* go to deletions; a file of a branch is taken unless a closer branch gave one
\* or the path is in the deletions gathered so far.  walk_files passes regular
\* files only.  files maps a path to the branch whose delta is copied.
RECURSIVE CollectWalk(_, _, _, _, _, _)
CollectWalk(brs, st, chain, i, deletions, files) ==
    IF i > Len(chain) THEN [deletions |-> deletions, files |-> files]
    ELSE LET name == chain[i]
             del2 == deletions \cup brs[name].tombstones
             fresh == {p \in Paths : /\ st[name].files[p].kind = "file"
                                     /\ p \notin DOMAIN files
                                     /\ p \notin del2}
             files2 == [p \in DOMAIN files \cup fresh |->
                           IF p \in DOMAIN files THEN files[p] ELSE name]
         IN CollectWalk(brs, st, chain, i + 1, del2, files2)

collect_changes(brs, st, chain) == CollectWalk(brs, st, chain, 1, {}, <<>>)

\* fs::create_dir_all in Branch::new: a path holding a NUL byte is refused.
CreateDirFails(name) == \E i \in 1..Len(name) : name[i] = "NUL"

\* The result of a manager call.
MgrResult(res, brs, st, bs, ep, w) ==
    [res |-> res, branches |-> brs, store |-> st, base |-> bs, epoch |-> ep, wedged |-> w,
     inval |-> {}]

\* BranchManager::invalidate_all_mounts: the calls of inval_inode made, each
\* with the key of its notifier, the inode, and whether it returned Ok.
\* fault: "notify" (every inval_inode fails).
invalidate_all_mounts(fault) ==
    UNION {{[branch |-> k[1], mountpoint |-> k[2], ino |-> i, ok |-> fault # "notify"] :
               i \in {ROOT_INO} \cup (IF k[1] \in DOMAIN opened THEN opened[k[1]] ELSE {})} :
           k \in notifiers}

\* BranchManager::invalidate_branches
invalidate_branches(names, fault) ==
    UNION {{[branch |-> k[1], mountpoint |-> k[2], ino |-> i, ok |-> fault # "notify"] :
               i \in {ROOT_INO} \cup (IF k[1] \in DOMAIN opened THEN opened[k[1]] ELSE {})} :
           k \in {n \in notifiers : n[1] \in names}}

\* BranchManager::create_branch.  fault: "none", or "save" (save_state fails).
create_branch(brs, st, bs, ep, name, parent, fault) ==
    IF name \in DOMAIN brs THEN MgrResult("err", brs, st, bs, ep, "none")
    ELSE IF parent \notin DOMAIN brs THEN MgrResult("err", brs, st, bs, ep, "none")
    ELSE IF CreateDirFails(name) THEN MgrResult("err", brs, st, bs, ep, "none")
    ELSE LET brs2 == [n \in DOMAIN brs \cup {name} |->
                         IF n = name THEN BranchNew(st, name, parent) ELSE brs[n]]
         IN MgrResult(IF fault = "save" THEN "err" ELSE "ok", brs2, st, bs, ep, "none")

\* Faulty variant of Materialize: the two loops in the other order, so that a
\* deletion removes a copied file.
MaterializeDeletionsLast(st, bs, ch) ==
    [p \in Paths |->
        IF p \in ch.deletions THEN Absent
        ELSE IF p \in DOMAIN ch.files THEN st[ch.files[p]].files[p]
        ELSE bs[p]]
\* The base after commit's two loops: deletions removed, then files copied.
Materialize(st, bs, ch) ==
    [p \in Paths |->
        IF p \in DOMAIN ch.files THEN st[ch.files[p]].files[p]
        ELSE IF p \in ch.deletions THEN Absent
        ELSE bs[p]]

\* The base when the copy loop fails at its first file: deletions only.
MaterializeDeletions(bs, ch) ==
    [p \in Paths |-> IF p \in ch.deletions THEN Absent ELSE bs[p]]

\* Faulty variant of FreshMain: branches.clear() left out, so that every branch
\* stays beside the new main.
FreshMainKeepsBranches(st) ==
    [n \in DOMAIN branches |-> IF n = MAIN THEN BranchNew(st, MAIN, NoName) ELSE branches[n]]
\* branches.clear(), then Branch::new("main") inserted
FreshMain(st) == (MAIN :> BranchNew(st, MAIN, NoName))

\* The members of a chain other than main.
NonMainOf(chain) == {chain[i] : i \in 1..Len(chain)} \ {MAIN}

\* BranchManager::commit.  fault: "none"; "copy" (fs::copy fails); "newmain"
\* (Branch::new fails after branches.clear()); "save" (save_state fails);
\* "notify" (the notifiers fail).
commit(brs, st, bs, ep, b, fault) ==
    IF b = MAIN THEN MgrResult("err", brs, st, bs, ep, "none")
    ELSE LET c == get_branch_chain(brs, b) IN
         IF c.st = "hang" THEN MgrResult("hang", brs, st, bs, ep, "write")
         ELSE IF c.st = "err" THEN MgrResult("err", brs, st, bs, ep, "none")
         ELSE LET ch == collect_changes(brs, st, c.chain) IN
              IF fault = "copy" /\ DOMAIN ch.files # {}
              THEN MgrResult("err", brs, st, MaterializeDeletions(bs, ch), ep, "none")
              ELSE LET bs2 == Materialize(st, bs, ch) IN
                   IF fault = "newmain"
                   THEN MgrResult("err", <<>>, st, bs2, ep, "none")
                   ELSE IF fault = "save"
                   THEN MgrResult("err", FreshMain(st), st, bs2, ep + 1, "none")
                   ELSE [MgrResult("ok", FreshMain(st), st, bs2, ep + 1, "none")
                            EXCEPT !.inval = invalidate_all_mounts(fault)]

RemoveBranches(brs, gone) == [n \in DOMAIN brs \ gone |-> brs[n]]
RemoveDirs(st, gone) == [n \in DOMAIN st |-> IF n \in gone THEN NoBranchDir ELSE st[n]]

\* BranchManager::abort.  fault: "none", "save" or "notify".
abort(brs, st, bs, ep, b, fault) ==
    IF b = MAIN THEN MgrResult("err", brs, st, bs, ep, "none")
    ELSE LET c == get_branch_chain(brs, b) IN
         IF c.st = "hang" THEN MgrResult("hang", brs, st, bs, ep, "write")
         ELSE IF c.st = "err" THEN MgrResult("err", brs, st, bs, ep, "none")
         ELSE LET gone == NonMainOf(c.chain) IN
              IF fault = "save"
              THEN MgrResult("err", RemoveBranches(brs, gone), RemoveDirs(st, gone), bs, ep,
                             "none")
              ELSE [MgrResult("ok", RemoveBranches(brs, gone), RemoveDirs(st, gone), bs, ep,
                              "none")
                       EXCEPT !.inval = invalidate_branches(gone, fault)]

\* Faulty variant of abort_single: main and an absent name refused, as abort
\* refuses them.
AbortSingleRefusing(brs, st, bs, ep, b, fault) ==
    IF b = MAIN \/ b \notin DOMAIN brs THEN MgrResult("err", brs, st, bs, ep, "none")
    ELSE MgrResult(IF fault = "save" THEN "err" ELSE "ok",
                   RemoveBranches(brs, {b}), RemoveDirs(st, {b}), bs, ep, "none")
\* BranchManager::abort_single.  fault: "none", "save" or "notify".
abort_single(brs, st, bs, ep, b, fault) ==
    IF b = MAIN THEN MgrResult("ok", brs, st, bs, ep, "none")
    ELSE IF b \notin DOMAIN brs THEN MgrResult("ok", brs, st, bs, ep, "none")
    ELSE IF fault = "save"
    THEN MgrResult("err", RemoveBranches(brs, {b}), RemoveDirs(st, {b}), bs, ep, "none")
    ELSE [MgrResult("ok", RemoveBranches(brs, {b}), RemoveDirs(st, {b}), bs, ep, "none")
             EXCEPT !.inval = invalidate_branches({b}, fault)]

\* BranchManager::get_children
get_children(brs, parent) == {n \in DOMAIN brs : brs[n].parent = parent}

\* BranchManager::register_opened_inode
register_opened_inode(op, b, ino) ==
    [n \in DOMAIN op \cup {b} |->
        IF n = b THEN (IF b \in DOMAIN op THEN op[b] ELSE {}) \cup {ino} ELSE op[n]]

\* ------------------------------------------------------------- InodeManager
NoPath == <<>>

\* InodeManager::new
InodeNew ==
    [next_ino |-> Succ64(ROOT_INO),
     path_to_ino |-> (RootPath :> ROOT_INO),
     ino_to_info |-> (ROOT_INO :> [path |-> RootPath, is_dir |-> TRUE])]

\* InodeManager::get_or_create: the table after the call and the number returned
get_or_create(it, path, is_dir) ==
    IF path \in DOMAIN it.path_to_ino
    THEN [it |-> it, ino |-> it.path_to_ino[path]]
    ELSE LET ino == it.next_ino IN
         [it |-> [next_ino |-> Succ64(ino),
                  path_to_ino |-> (path :> ino) @@ it.path_to_ino,
                  ino_to_info |-> (ino :> [path |-> path, is_dir |-> is_dir]) @@ it.ino_to_info],
          ino |-> ino]

\* InodeManager::get_path (NoPath for None)
get_path(it, ino) ==
    IF ino \in DOMAIN it.ino_to_info THEN it.ino_to_info[ino].path ELSE NoPath

\* The entries of the path map other than those at the paths gone, and the
\* records of the numbers they held.
DropPaths(it, gone) ==
    LET inos == {it.path_to_ino[p] : p \in gone} IN
    [next_ino |-> it.next_ino,
     path_to_ino |-> [p \in DOMAIN it.path_to_ino \ gone |-> it.path_to_ino[p]],
     ino_to_info |-> [i \in DOMAIN it.ino_to_info \ inos |-> it.ino_to_info[i]]]

\* InodeManager::remove
inode_remove(it, path) == DropPaths(it, {path} \cap DOMAIN it.path_to_ino)

\* InodeManager::clear_prefix
clear_prefix(it, prefix) ==
    DropPaths(it, {p \in DOMAIN it.path_to_ino : StartsWith(p, prefix)})

\* Faulty variant of inode_clear: the table as InodeManager::new makes it, the
\* counter started again.
InodeClearResetting(it) == InodeNew
\* InodeManager::clear: next_ino is not reset
inode_clear(it) ==
    [next_ino |-> it.next_ino,
     path_to_ino |-> (RootPath :> ROOT_INO),
     ino_to_info |-> (ROOT_INO :> [path |-> RootPath, is_dir |-> TRUE])]

\* ------------------------------------------------------------------ BranchFs
\* BranchFs::new
NewView(branch_name, ep) ==
    [branch_name |-> branch_name,
     current_epoch |-> ep,
     inodes |-> InodeNew,
     branch_ctl_inodes |-> <<>>,
     next_ctl_ino |-> Hi(1000000),
     alive |-> TRUE]

\* BranchFs::is_stale
is_stale(vw, brs, ep) ==
    ep # vw.current_epoch \/ ~is_branch_valid(brs, vw.branch_name)

\* BranchFs::switch_to_branch
switch_to_branch(vw, new_branch, ep) ==
    [vw EXCEPT !.branch_name = new_branch,
               !.current_epoch = ep,
               !.inodes = inode_clear(vw.inodes)]

\* BranchFs::get_or_create_branch_ctl_ino: the view after the call and the number
get_or_create_branch_ctl_ino(vw, branch) ==
    IF branch \in DOMAIN vw.branch_ctl_inodes
    THEN [vw |-> vw, ino |-> vw.branch_ctl_inodes[branch]]
    ELSE LET ino == vw.next_ctl_ino IN
         [vw |-> [vw EXCEPT !.next_ctl_ino = Succ64(ino),
                            !.branch_ctl_inodes = (branch :> ino) @@ vw.branch_ctl_inodes],
          ino |-> ino]

\* BranchFs::branch_for_ctl_ino (NoName for None)
branch_for_ctl_ino(vw, ino) ==
    IF \E n \in DOMAIN vw.branch_ctl_inodes : vw.branch_ctl_inodes[n] = ino
    THEN CHOOSE n \in DOMAIN vw.branch_ctl_inodes : vw.branch_ctl_inodes[n] = ino
    ELSE NoName

\* PathContext
Ctx(kind, branch, rel) == [kind |-> kind, branch |-> branch, rel |-> rel]

\* BranchFs::classify_path
RECURSIVE classify_path(_)
classify_path(path) ==
    IF path = RootPath THEN Ctx("RootPath", NoName, RootPath)
    ELSE IF StartsWith(path, <<"/", "@">>)
    THEN LET rest == SubSeq(path, 3, Len(path))
             slash_pos == Find(rest, "/")
         IN IF slash_pos # 0
            THEN LET branch == SubSeq(rest, 1, slash_pos - 1)
                     remainder == SubSeq(rest, slash_pos, Len(rest))
                 IN IF StartsWith(remainder, <<"/", "@">>) THEN classify_path(remainder)
                    ELSE IF remainder = <<"/">> \o CTL_FILE
                    THEN Ctx("BranchCtl", branch, NoPath)
                    ELSE Ctx("BranchPath", branch, remainder)
            ELSE Ctx("BranchDir", rest, NoPath)
    ELSE Ctx("RootPath", NoName, path)

\* format!("/{}", name) under the root, format!("{}/{}", dir, name) below it
ChildPath(dir, name) ==
    IF dir = RootPath THEN <<"/">> \o name ELSE dir \o <<"/">> \o name

\* format!("/@{}", branch)
BranchDirPath(branch) == <<"/", "@">> \o branch

\* ------------------------------------------------------- handler outcomes
\* What a handler leaves behind: its reply, the data replied, the view, and
\* the manager's state.
Out(reply, val, vw, brs, st, bs, ep, op, w) ==
    [reply |-> reply, val |-> val, view |-> vw, branches |-> brs, store |-> st,
     base |-> bs, epoch |-> ep, opened |-> op, wedged |-> w, inval |-> {}]

NoVal == <<>>

\* A reply that changes at most the view.
Same(reply, vw) == Out(reply, NoVal, vw, branches, store, base, epoch, opened, wedged)
\* A reply after the branch directories changed.
Stored(reply, vw, st) == Out(reply, NoVal, vw, branches, st, base, epoch, opened, wedged)
\* Option::unwrap / Result::unwrap on None / Err: the handler's thread panics.
Panic(vw, st) ==
    Out("PANIC", NoVal, [vw EXCEPT !.alive = FALSE], branches, st, base, epoch, opened, wedged)
\* A walk over a cycle of parents never returns; it holds the read lock.
Hang(vw) ==
    Out("HANG", NoVal, [vw EXCEPT !.alive = FALSE], branches, store, base, epoch, opened, "read")
\* A reply after a manager call.
AfterMgr(reply, vw, m) ==
    [Out(reply, NoVal, vw, m.branches, m.store, m.base, m.epoch, opened, m.wedged)
        EXCEPT !.inval = m.inval]

Stale(vw) == is_stale(vw, branches, epoch)

\* BranchFs::resolve_for_branch on the current state
resolve_for_branch(b, p) == resolve_path(branches, store, base, b, p)

\* Option<PathBuf> of resolve / resolve_for_branch: .ok()? turns NotFound to None
IsSome(r) == r.tag \in {"delta", "base"}

\* The tail of lookup once the path is known: resolve, allocate, make_attr.
LookupResolved(vw, b, rel, ipath) ==
    LET r == resolve_for_branch(b, rel) IN
    IF r.tag = "hang" THEN Hang(vw)
    ELSE IF ~IsSome(r) THEN Same("ENOENT", vw)
    ELSE LET is_dir == NodeAt(store, base, r, rel).kind = "dir" IN
         Same("ok", [vw EXCEPT !.inodes = get_or_create(@, ipath, is_dir).it])

\* BranchFs::lookup
lookup(vw, parent, name) ==
    LET parent_path == get_path(vw.inodes, parent) IN
    IF parent_path = NoPath THEN Same("ENOENT", vw)
    ELSE IF parent_path = RootPath
    THEN IF name = CTL_FILE THEN Same("ok", vw)
         ELSE IF StartsWith(name, <<"@">>)
         THEN LET branch == Tail(name) IN
              IF is_branch_valid(branches, branch)
              THEN Same("ok", [vw EXCEPT !.inodes =
                                  get_or_create(@, BranchDirPath(branch), TRUE).it])
              ELSE Same("ENOENT", vw)
         ELSE IF Stale(vw) THEN Same("ESTALE", vw)
         ELSE LET path == ChildPath(RootPath, name) IN
              LookupResolved(vw, vw.branch_name, path, path)
    ELSE LET c == classify_path(parent_path) IN
         IF c.kind \in {"BranchDir", "BranchPath"}
         THEN LET branch == c.branch
                  parent_rel == IF c.kind = "BranchDir" THEN RootPath ELSE c.rel
              IN IF parent_rel = RootPath /\ name = CTL_FILE
                 THEN Same("ok", get_or_create_branch_ctl_ino(vw, branch).vw)
                 ELSE IF StartsWith(name, <<"@">>)
                 THEN LET child_branch == Tail(name) IN
                      IF child_branch \in get_children(branches, branch)
                      THEN IF parent_rel = RootPath
                           THEN Same("ok", [vw EXCEPT !.inodes =
                                    get_or_create(@, BranchDirPath(branch)
                                                     \o BranchDirPath(child_branch), TRUE).it])
                           ELSE Same("ENOENT", vw)
                      ELSE Same("ENOENT", vw)
                 ELSE IF ~is_branch_valid(branches, branch) THEN Same("ENOENT", vw)
                 ELSE LET child_rel == ChildPath(parent_rel, name) IN
                      LookupResolved(vw, branch, child_rel, BranchDirPath(branch) \o child_rel)
         ELSE IF Stale(vw) THEN Same("ESTALE", vw)
         ELSE LET path == parent_path \o <<"/">> \o name IN
              LookupResolved(vw, vw.branch_name, path, path)

\* The tail of getattr in a branch context or at a root path: resolve, make_attr.
AttrResolved(vw, b, rel, root_fallback) ==
    LET r == resolve_for_branch(b, rel) IN
    IF r.tag = "hang" THEN Hang(vw)
    ELSE IF ~IsSome(r) THEN Same(IF root_fallback THEN "ok" ELSE "ENOENT", vw)
    ELSE Same("ok", vw)

\* BranchFs::getattr
getattr(vw, ino) ==
    IF ino = CTL_INO THEN Same("ok", vw)
    ELSE IF branch_for_ctl_ino(vw, ino) # NoName
    THEN Same(IF is_branch_valid(branches, branch_for_ctl_ino(vw, ino))
              THEN "ok" ELSE "ENOENT", vw)
    ELSE LET path == get_path(vw.inodes, ino) IN
         IF path = NoPath THEN Same(IF ino = ROOT_INO THEN "ok" ELSE "ENOENT", vw)
         ELSE LET c == classify_path(path) IN
              IF c.kind \in {"BranchDir", "BranchCtl"}
              THEN Same(IF is_branch_valid(branches, c.branch) THEN "ok" ELSE "ENOENT", vw)
              ELSE IF c.kind = "BranchPath"
              THEN IF ~is_branch_valid(branches, c.branch) THEN Same("ENOENT", vw)
                   ELSE AttrResolved(vw, c.branch, c.rel, FALSE)
              ELSE IF ino # ROOT_INO /\ Stale(vw) THEN Same("ESTALE", vw)
              ELSE AttrResolved(vw, vw.branch_name, c.rel, ino = ROOT_INO)

\* data[start..end] of read
Slice(data, offset, size) ==
    IF offset < Len(data)
    THEN SubSeq(data, offset + 1, IF offset + size < Len(data) THEN offset + size ELSE Len(data))
    ELSE <<>>

\* std::fs::read(resolved) and the reply
ReadResolved(vw, b, rel, offset, size) ==
    LET r == resolve_for_branch(b, rel) IN
    IF r.tag = "hang" THEN Hang(vw)
    ELSE IF ~IsSome(r) THEN Same("ENOENT", vw)
    ELSE LET node == NodeAt(store, base, r, rel) IN
         IF node.kind # "file" THEN Same("EIO", vw)
         ELSE Out("ok", Slice(node.data, offset, size), vw,
                  branches, store, base, epoch, opened, wedged)

\* BranchFs::classify_ino (kind "None" when the number is unknown)
classify_ino(vw, ino) ==
    IF ino = ROOT_INO THEN Ctx("RootPath", NoName, RootPath)
    ELSE IF ino = CTL_INO THEN Ctx("RootCtl", NoName, NoPath)
    ELSE IF branch_for_ctl_ino(vw, ino) # NoName
    THEN Ctx("BranchCtl", branch_for_ctl_ino(vw, ino), NoPath)
    ELSE IF get_path(vw.inodes, ino) = NoPath THEN Ctx("None", NoName, NoPath)
    ELSE classify_path(get_path(vw.inodes, ino))

\* BranchFs::read
read(vw, ino, offset, size) ==
    LET c == classify_ino(vw, ino) IN
    IF c.kind = "BranchPath"
    THEN IF ~is_branch_valid(branches, c.branch) THEN Same("ENOENT", vw)
         ELSE ReadResolved(vw, c.branch, c.rel, offset, size)
    ELSE IF c.kind \in {"BranchDir", "BranchCtl"} THEN Same("EISDIR", vw)
    ELSE IF Stale(vw) THEN Same("ESTALE", vw)
    ELSE LET path == get_path(vw.inodes, ino) IN
         IF path = NoPath THEN Same("ENOENT", vw)
         ELSE ReadResolved(vw, vw.branch_name, path, offset, size)

\* ------------------------------------------------------ mutating handlers
\* Faulty variant of PutDelta: the delta path taken under main's directory,
\* whatever the branch.
PutDeltaInMain(st, b, p, node) == [st EXCEPT ![MAIN].files[p] = node]
\* A file operation at get_delta_path_for_branch(b, p)
PutDelta(st, b, p, node) == [st EXCEPT ![b].files[p] = node]

\* BranchFs::ensure_cow_for_branch.  get_delta_path_for_branch unwraps the
\* branch lookup; the copy-up takes a regular file only.
ensure_cow_for_branch(branch, rel_path) ==
    IF ~is_branch_valid(branches, branch) THEN [st |-> "panic", store |-> store]
    ELSE IF has_delta(store, branch, rel_path) THEN [st |-> "ok", store |-> store]
    ELSE LET r == resolve_for_branch(branch, rel_path) IN
         IF r.tag = "hang" THEN [st |-> "hang", store |-> store]
         ELSE IF IsSome(r) /\ NodeAt(store, base, r, rel_path).kind = "file"
         THEN [st |-> "ok",
               store |-> PutDelta(store, branch, rel_path, NodeAt(store, base, r, rel_path))]
         ELSE [st |-> "ok", store |-> store]

\* The body shared by the two writing arms of write: copy up, open with
\* create, seek, write; the root-path arm looks at staleness afterwards.
WriteDelta(vw, branch, rel_path, offset, data, root_arm) ==
    LET e == ensure_cow_for_branch(branch, rel_path) IN
    IF e.st = "panic" THEN Panic(vw, store)
    ELSE IF e.st = "hang" THEN Hang(vw)
    ELSE LET node == DeltaNode(e.store, branch, rel_path) IN
         IF node.kind = "dir" THEN Stored("EIO", vw, e.store)
         ELSE LET st2 == PutDelta(e.store, branch, rel_path,
                                  File(Overlay(node.data, offset, data)))
              IN Stored(IF root_arm /\ Stale(vw) THEN "ESTALE" ELSE "ok", vw, st2)

\* Control commands, as the text written to a ctl file.
CmdCommit == <<"commit">>
CmdAbort == <<"abort">>
CmdSwitch(b) == <<"switch:">> \o b

\* The root ctl arm of write.  cmd[7..] is what follows "switch:" in the text
\* as written, trimmed again.
RootCtl(vw, data, fault) ==
    LET cmd == Trim(data)
        cmd_lower == to_lowercase(cmd)
    IN IF StartsWith(cmd_lower, <<"switch:">>)
       THEN LET new_branch == Trim(Tail(cmd)) IN
            IF new_branch = NoName THEN Same("EINVAL", vw)
            ELSE IF ~is_branch_valid(branches, new_branch) THEN Same("ENOENT", vw)
            ELSE Same("ok", switch_to_branch(vw, new_branch, epoch))
       ELSE IF cmd_lower \notin {CmdCommit, CmdAbort} THEN Same("EINVAL", vw)
       ELSE LET m == IF cmd_lower = CmdCommit
                     THEN commit(branches, store, base, epoch, vw.branch_name, fault)
                     ELSE abort(branches, store, base, epoch, vw.branch_name, fault)
            IN IF m.res = "hang" THEN AfterMgr("HANG", [vw EXCEPT !.alive = FALSE], m)
               ELSE IF m.res = "ok" THEN AfterMgr("ok", switch_to_branch(vw, MAIN, m.epoch), m)
               ELSE AfterMgr("EIO", vw, m)

\* The per-branch ctl arm of write.
BranchCtl(vw, branch, data, fault) ==
    LET cmd_lower == to_lowercase(Trim(data)) IN
    IF cmd_lower \notin {CmdCommit, CmdAbort} THEN Same("EINVAL", vw)
    ELSE LET m == IF cmd_lower = CmdCommit
                  THEN commit(branches, store, base, epoch, branch, fault)
                  ELSE abort(branches, store, base, epoch, branch, fault)
         IN IF m.res = "hang" THEN AfterMgr("HANG", [vw EXCEPT !.alive = FALSE], m)
            ELSE IF m.res # "ok" THEN AfterMgr("EIO", vw, m)
            ELSE IF cmd_lower = CmdCommit
            THEN AfterMgr("ok", [vw EXCEPT !.inodes = inode_clear(@),
                                           !.current_epoch = m.epoch,
                                           !.branch_name = MAIN], m)
            ELSE AfterMgr("ok", [vw EXCEPT !.inodes =
                                    clear_prefix(@, BranchDirPath(branch))], m)

\* BranchFs::write
write(vw, ino, offset, data, fault) ==
    IF ino = CTL_INO THEN RootCtl(vw, data, fault)
    ELSE IF branch_for_ctl_ino(vw, ino) # NoName
    THEN BranchCtl(vw, branch_for_ctl_ino(vw, ino), data, fault)
    ELSE LET path == get_path(vw.inodes, ino) IN
         IF path = NoPath THEN Same("ENOENT", vw)
         ELSE LET c == classify_path(path) IN
              IF c.kind \in {"BranchDir", "BranchCtl"} THEN Same("EPERM", vw)
              ELSE IF c.kind = "BranchPath"
              THEN IF ~is_branch_valid(branches, c.branch) THEN Same("ENOENT", vw)
                   ELSE WriteDelta(vw, c.branch, c.rel, offset, data, FALSE)
              ELSE WriteDelta(vw, vw.branch_name, path, offset, data, TRUE)

\* Faulty variant of IoctlArm: the reply sent, the view left where it was.
IoctlArmNoSwitch(vw, m) ==
    IF m.res = "hang" THEN AfterMgr("HANG", [vw EXCEPT !.alive = FALSE], m)
    ELSE IF m.res = "ok" THEN AfterMgr("ok", vw, m)
    ELSE AfterMgr("EIO", vw, m)
\* An arm of ioctl's match, run on the result of the manager call.
IoctlArm(vw, m) ==
    IF m.res = "hang" THEN AfterMgr("HANG", [vw EXCEPT !.alive = FALSE], m)
    ELSE IF m.res = "ok" THEN AfterMgr("ok", switch_to_branch(vw, MAIN, m.epoch), m)
    ELSE AfterMgr("EIO", vw, m)

\* BranchFs::ioctl
ioctl(vw, cmd, fault) ==
    IF cmd = BRANCHFS_IOC_COMMIT
    THEN IoctlArm(vw, commit(branches, store, base, epoch, vw.branch_name, fault))
    ELSE IF cmd = BRANCHFS_IOC_ABORT
    THEN IoctlArm(vw, abort(branches, store, base, epoch, vw.branch_name, fault))
    ELSE Same("ENOTTY", vw)

\* The parent directory's relative path in its branch context.
ParentRel(c) == IF c.kind = "BranchDir" THEN RootPath ELSE c.rel

\* BranchFs::create.  File::create truncates what is there and fails on a directory.
create(vw, parent, name) ==
    LET parent_path == get_path(vw.inodes, parent) IN
    IF parent_path = NoPath THEN Same("ENOENT", vw)
    ELSE LET c == classify_path(parent_path) IN
         IF c.kind \in {"BranchDir", "BranchPath"}
         THEN IF ~is_branch_valid(branches, c.branch) THEN Same("ENOENT", vw)
              ELSE LET rel_path == ChildPath(ParentRel(c), name) IN
                   IF DeltaNode(store, c.branch, rel_path).kind = "dir" THEN Same("EIO", vw)
                   ELSE Stored("ok",
                               [vw EXCEPT !.inodes = get_or_create(@,
                                   BranchDirPath(c.branch) \o rel_path, FALSE).it],
                               PutDelta(store, c.branch, rel_path, File(<<>>)))
         ELSE IF c.kind = "BranchCtl" THEN Same("EPERM", vw)
         ELSE LET path == ChildPath(c.rel, name) IN
              IF ~is_branch_valid(branches, vw.branch_name) THEN Panic(vw, store)
              ELSE IF DeltaNode(store, vw.branch_name, path).kind = "dir" THEN Same("EIO", vw)
              ELSE IF Stale(vw)
              THEN Stored("ESTALE", vw, PutDelta(store, vw.branch_name, path, Absent))
              ELSE Stored("ok",
                          [vw EXCEPT !.inodes = get_or_create(@, path, FALSE).it],
                          PutDelta(store, vw.branch_name, path, File(<<>>)))

\* BranchFs::mkdir.  create_dir_all succeeds on a directory and fails on a file.
mkdir(vw, parent, name) ==
    LET parent_path == get_path(vw.inodes, parent) IN
    IF parent_path = NoPath THEN Same("ENOENT", vw)
    ELSE LET c == classify_path(parent_path) IN
         IF c.kind \in {"BranchDir", "BranchPath"}
         THEN IF ~is_branch_valid(branches, c.branch) THEN Same("ENOENT", vw)
              ELSE LET rel_path == ChildPath(ParentRel(c), name) IN
                   IF DeltaNode(store, c.branch, rel_path).kind = "file" THEN Same("EIO", vw)
                   ELSE Stored("ok",
                               [vw EXCEPT !.inodes = get_or_create(@,
                                   BranchDirPath(c.branch) \o rel_path, TRUE).it],
                               PutDelta(store, c.branch, rel_path, Dir))
         ELSE IF c.kind = "BranchCtl" THEN Same("EPERM", vw)
         ELSE LET path == ChildPath(c.rel, name) IN
              IF ~is_branch_valid(branches, vw.branch_name) THEN Panic(vw, store)
              ELSE IF DeltaNode(store, vw.branch_name, path).kind = "file" THEN Same("EIO", vw)
              ELSE IF Stale(vw)
              THEN Stored("ESTALE", vw, PutDelta(store, vw.branch_name, path, Absent))
              ELSE Stored("ok",
                          [vw EXCEPT !.inodes = get_or_create(@, path, TRUE).it],
                          PutDelta(store, vw.branch_name, path, Dir))

\* Branch::add_tombstone through with_branch: the set, and the log when new
add_tombstone(brs, b, path) ==
    [brs EXCEPT ![b].tombstones = @ \cup {path}]
\* Faulty variant of LogTombstone: the line appended whether the set held the
\* path or not.
LogTombstoneAlways(brs, st, b, path) == [st EXCEPT ![b].log = Append(@, path)]
LogTombstone(brs, st, b, path) ==
    IF path \in brs[b].tombstones THEN st
    ELSE [st EXCEPT ![b].log = Append(@, path)]

\* The closure unlink runs under with_branch: tombstone, then remove_file on
\* the delta, which fails on a directory.  fault: "none", or "append" (the
\* append to the tombstone log fails: the path is in the set by then, and the
\* closure returns at the ? before it comes to the delta).
UnlinkIn(b, path, fault) ==
    LET node == DeltaNode(store, b, path)
        st1 == LogTombstone(branches, store, b, path)
    IN IF fault = "append" /\ path \notin branches[b].tombstones
       THEN [ok |-> FALSE, branches |-> add_tombstone(branches, b, path), store |-> store]
       ELSE [ok |-> node.kind # "dir",
             branches |-> add_tombstone(branches, b, path),
             store |-> IF node.kind = "file" THEN PutDelta(st1, b, path, Absent) ELSE st1]

\* BranchFs::unlink (rmdir is the same handler)
unlink(vw, parent, name, fault) ==
    LET parent_path == get_path(vw.inodes, parent) IN
    IF parent_path = NoPath THEN Same("ENOENT", vw)
    ELSE LET c == classify_path(parent_path) IN
         IF c.kind \in {"BranchDir", "BranchPath"}
         THEN IF StartsWith(name, <<"@">>) \/ name = CTL_FILE THEN Same("EPERM", vw)
              ELSE IF ~is_branch_valid(branches, c.branch) THEN Same("ENOENT", vw)
              ELSE LET rel_path == ChildPath(ParentRel(c), name)
                       u == UnlinkIn(c.branch, rel_path, fault)
                   IN IF ~u.ok
                      THEN Out("EIO", NoVal, vw, u.branches, u.store, base, epoch,
                               opened, wedged)
                      ELSE Out("ok", NoVal,
                               [vw EXCEPT !.inodes = inode_remove(@,
                                   BranchDirPath(c.branch) \o rel_path)],
                               u.branches, u.store, base, epoch, opened, wedged)
         ELSE IF c.kind = "BranchCtl" THEN Same("EPERM", vw)
         ELSE LET path == ChildPath(c.rel, name) IN
              IF ~is_branch_valid(branches, vw.branch_name) THEN Same("ESTALE", vw)
              ELSE LET u == UnlinkIn(vw.branch_name, path, fault) IN
                   IF ~u.ok \/ Stale(vw)
                   THEN Out("ESTALE", NoVal, vw, u.branches, u.store, base, epoch,
                            opened, wedged)
                   ELSE Out("ok", NoVal, [vw EXCEPT !.inodes = inode_remove(@, path)],
                            u.branches, u.store, base, epoch, opened, wedged)

\* The tail of open: resolve, register the inode as opened.
OpenResolved(vw, b, rel, ino) ==
    LET r == resolve_for_branch(b, rel) IN
    IF r.tag = "hang" THEN Hang(vw)
    ELSE IF ~IsSome(r) THEN Same("ENOENT", vw)
    ELSE Out("ok", NoVal, vw, branches, store, base, epoch,
             register_opened_inode(opened, b, ino), wedged)

\* BranchFs::open
open(vw, ino) ==
    IF ino = CTL_INO THEN Same("ok", vw)
    ELSE IF branch_for_ctl_ino(vw, ino) # NoName THEN Same("ok", vw)
    ELSE LET path == get_path(vw.inodes, ino) IN
         IF path = NoPath THEN Same("ENOENT", vw)
         ELSE LET c == classify_path(path) IN
              IF c.kind \in {"BranchDir", "BranchCtl"} THEN Same("ok", vw)
              ELSE IF c.kind = "BranchPath"
              THEN IF ~is_branch_valid(branches, c.branch) THEN Same("ENOENT", vw)
                   ELSE OpenResolved(vw, c.branch, c.rel, ino)
              ELSE IF Stale(vw) THEN Same("ESTALE", vw)
              ELSE OpenResolved(vw, vw.branch_name, path, ino)

\* Option<u64>: <<>> is None, <<n>> is Some(n)
NoSize == <<>>

\* The size part of setattr: copy up, open for writing without create, set_len.
\* A failure to open is ignored.
Truncate(branch, rel_path, size) ==
    LET e == ensure_cow_for_branch(branch, rel_path) IN
    IF e.st # "ok" THEN e
    ELSE LET node == DeltaNode(e.store, branch, rel_path) IN
         IF node.kind # "file" THEN e
         ELSE [st |-> "ok",
               store |-> PutDelta(e.store, branch, rel_path,
                                  File(SetLen(node.data, size[1])))]

\* The tail of setattr: resolve on the state after the truncation, make_attr.
SetattrResolved(vw, st, b, rel, root_arm) ==
    IF root_arm /\ Stale(vw) THEN Stored("ESTALE", vw, st)
    ELSE LET r == resolve_path(branches, st, base, b, rel) IN
         IF r.tag = "hang" THEN Hang(vw)
         ELSE Stored(IF IsSome(r) THEN "ok" ELSE "ENOENT", vw, st)

SetattrIn(vw, b, rel, size, root_arm) ==
    IF size = NoSize THEN SetattrResolved(vw, store, b, rel, root_arm)
    ELSE LET t == Truncate(b, rel, size) IN
         IF t.st = "panic" THEN Panic(vw, store)
         ELSE IF t.st = "hang" THEN Hang(vw)
         ELSE SetattrResolved(vw, t.store, b, rel, root_arm)

\* BranchFs::setattr
setattr(vw, ino, size) ==
    IF ino = CTL_INO THEN Same("ok", vw)
    ELSE IF branch_for_ctl_ino(vw, ino) # NoName
    THEN Same(IF is_branch_valid(branches, branch_for_ctl_ino(vw, ino))
              THEN "ok" ELSE "ENOENT", vw)
    ELSE LET path == get_path(vw.inodes, ino) IN
         IF path = NoPath THEN Same("ENOENT", vw)
         ELSE LET c == classify_path(path) IN
              IF c.kind \in {"BranchDir", "BranchCtl"} THEN Same("EPERM", vw)
              ELSE IF c.kind = "BranchPath"
              THEN IF ~is_branch_valid(branches, c.branch) THEN Same("ENOENT", vw)
                   ELSE SetattrIn(vw, c.branch, c.rel, size, FALSE)
              ELSE SetattrIn(vw, vw.branch_name, path, size, TRUE)

\* ------------------------------------------------------------------ readdir
\* The orders in which read_dir or a HashMap may hand out the members of S.
Perms(S) ==
    {f \in [1..Cardinality(S) -> S] : \A i, j \in 1..Cardinality(S) : i # j => f[i] # f[j]}

Entry(path, is_dir, name) == [path |-> path, is_dir |-> is_dir, name |-> name]

\* get_or_create for each entry in turn
RECURSIVE AllocAll(_, _)
AllocAll(it, entries) ==
    IF entries = <<>> THEN it
    ELSE AllocAll(get_or_create(it, Head(entries).path, Head(entries).is_dir).it,
                  Tail(entries))

EntryNames(entries) == [i \in 1..Len(entries) |-> entries[i].name]

\* The directory entries at the top of a branch context: what the base holds,
\* then what the branch's own delta directory holds and the base did not.
\* prefix is where the inode paths of the context start.
TopEntries(b, prefix, order) ==
    LET InBase(p) == BaseNode(base, p).kind # "none"
        InDelta(p) == ~InBase(p) /\ DeltaNode(store, b, p).kind # "none"
        from_base == SelectSeq(order, InBase)
        from_delta == SelectSeq(order, InDelta)
    IN [i \in 1..Len(from_base) |->
           Entry(prefix \o from_base[i], BaseNode(base, from_base[i]).kind = "dir",
                 Tail(from_base[i]))]
       \o
       [i \in 1..Len(from_delta) |->
           Entry(prefix \o from_delta[i], DeltaNode(store, b, from_delta[i]).kind = "dir",
                 Tail(from_delta[i]))]

\* The @name entries for the branches in some, in the order given.
BranchEntries(some, prefix, border) ==
    LET Listed(n) == n \in some
        names == SelectSeq(border, Listed)
    IN [i \in 1..Len(names) |->
           Entry(prefix \o BranchDirPath(names[i]), TRUE, <<"@">> \o names[i])]

Dots == << <<".">>, <<"..">> >>

Listing(vw, names) == Out("ok", names, vw, branches, store, base, epoch, opened, wedged)

\* A directory below the top: the model's paths are one level deep, so there
\* is nothing to list there; resolve is still called.
SubdirListing(vw, b, rel) ==
    IF resolve_for_branch(b, rel).tag = "hang" THEN Hang(vw) ELSE Listing(vw, Dots)

\* BranchFs::readdir with offset 0
readdir(vw, ino, order, border) ==
    LET path == get_path(vw.inodes, ino) IN
    IF path = NoPath THEN Same("ENOENT", vw)
    ELSE LET c == classify_path(path) IN
         IF c.kind = "BranchDir"
         THEN IF ~is_branch_valid(branches, c.branch) THEN Same("ENOENT", vw)
              ELSE LET prefix == BranchDirPath(c.branch)
                       files == TopEntries(c.branch, prefix, order)
                       vw1 == [vw EXCEPT !.inodes = AllocAll(@, files)]
                       vw2 == get_or_create_branch_ctl_ino(vw1, c.branch).vw
                       kids == BranchEntries(get_children(branches, c.branch), prefix, border)
                   IN Listing([vw2 EXCEPT !.inodes = AllocAll(@, kids)],
                              Dots \o EntryNames(files) \o <<CTL_FILE>> \o EntryNames(kids))
         ELSE IF c.kind = "BranchPath"
         THEN IF ~is_branch_valid(branches, c.branch) THEN Same("ENOENT", vw)
              ELSE SubdirListing(vw, c.branch, c.rel)
         ELSE IF c.kind = "RootPath" /\ c.rel = RootPath
         THEN IF Stale(vw) THEN Same("ESTALE", vw)
              ELSE LET files == TopEntries(vw.branch_name, <<>>, order)
                       brs == BranchEntries(DOMAIN branches \ {MAIN}, <<>>, border)
                   IN Listing([vw EXCEPT !.inodes = AllocAll(@, files \o brs)],
                              Dots \o EntryNames(files) \o <<CTL_FILE>> \o EntryNames(brs))
         ELSE IF c.kind = "RootPath"
         THEN IF Stale(vw) THEN Same("ESTALE", vw)
              ELSE SubdirListing(vw, vw.branch_name, path)
         ELSE Same("ENOTDIR", vw)

\* ------------------------------------------------------------------- inputs
FileNames == {Tail(p) : p \in FilePaths}
DirNames == {Tail(p) : p \in DirPaths}
\* Names of synthetic entries: the ctl file and an @branch directory.
SyntheticNames == {CTL_FILE, <<"@", "b1">>}
LookupNames ==
    FileNames \cup DirNames \cup {<<"@">> \o n : n \in Names} \cup {CTL_FILE}
\* Texts written to a ctl file: the commands; the commands in capitals and
\* between white space; switch without a name; a name in capitals; other text.
CtlCommands ==
    {CmdCommit, CmdAbort} \cup {CmdSwitch(n) : n \in Names}
    \cup {<<"COMMIT", "\n">>, <<" ", "Abort">>, <<"SWITCH:", " ", "b1">>,
          <<"switch:", "\n">>, <<"switch:", "B1">>, <<"status">>}
IoctlCommands == {BRANCHFS_IOC_COMMIT, BRANCHFS_IOC_ABORT, "0x0"}
\* The base directory a mount is given: empty, or holding a file and a directory.
EmptyBase == [p \in Paths |-> Absent]
FullBase ==
    [p \in Paths |-> IF p \in FilePaths THEN File(<<"h">>)
                     ELSE IF p \in DirPaths THEN Dir ELSE Absent]
BaseStates == {EmptyBase, FullBase}

\* The branch trees the state file may hold when the manager is constructed:
\* main alone, one child, a chain of two, two children.
B1 == <<"b1">>
B2 == <<"b2">>
StateTrees ==
    {(MAIN :> NoName),
     (MAIN :> NoName) @@ (B1 :> MAIN),
     (MAIN :> NoName) @@ (B1 :> MAIN) @@ (B2 :> B1),
     (MAIN :> NoName) @@ (B1 :> MAIN) @@ (B2 :> MAIN)}

\* What a storage directory may hold when the manager is constructed on it
\* again: Branch::new takes a branch directory over as it is, with the files
\* under files/ and the tombstones log written by earlier requests.
EmptyStore == [n \in StoreNames |-> NoBranchDir]
StoredDir(n, has_file, has_tombstone) ==
    [files |-> [p \in Paths |-> IF has_file /\ p \in FilePaths THEN File(n) ELSE Absent],
     log |-> IF has_tombstone THEN <<CHOOSE p \in FilePaths : TRUE>> ELSE <<>>]
StoredStates ==
    {st \in [StoreNames -> {StoredDir(n, f, t) : n \in NonMain, f \in BOOLEAN, t \in BOOLEAN}] :
        /\ st[MAIN] = NoBranchDir
        /\ st[AtName] = NoBranchDir
        /\ \A n \in NonMain : st[n].files \in {EmptyFiles, StoredDir(n, TRUE, FALSE).files}}

\* I/O faults a manager call can meet, when the storage is one that fails.
Faults ==
    IF faulty THEN {"none", "copy", "newmain", "save", "append", "notify"} ELSE {"none"}

\* The inode numbers the kernel may hold for a view.
CtlInos(vw) == {CTL_INO} \cup {vw.branch_ctl_inodes[n] : n \in DOMAIN vw.branch_ctl_inodes}
KnownInos(vw) == DOMAIN vw.inodes.ino_to_info
FileInos(vw) == {i \in KnownInos(vw) : ~vw.inodes.ino_to_info[i].is_dir}
DirInos(vw) == {i \in KnownInos(vw) : vw.inodes.ino_to_info[i].is_dir}
\* Directories whose children are paths of the model: the root and the @branch dirs.
TopInos(vw) ==
    {i \in DirInos(vw) :
        LET c == classify_path(get_path(vw.inodes, i)) IN
        c.kind = "BranchDir" \/ (c.kind = "RootPath" /\ c.rel = RootPath)}

\* What an operation addresses: the kind of place and the branch it works on.
Target(kind, br) == [kind |-> kind, br |-> br]
InoTarget(vw, ino) ==
    LET c == classify_ino(vw, ino) IN
    IF c.kind = "RootPath"
    THEN Target(IF c.rel = RootPath THEN "Root" ELSE "RootPath", vw.branch_name)
    ELSE IF c.kind = "RootCtl" THEN Target("RootCtl", vw.branch_name)
    ELSE Target(c.kind, c.branch)
ChildTarget(vw, parent, name) ==
    LET c == classify_path(get_path(vw.inodes, parent)) IN
    IF c.kind = "RootPath"
    THEN IF name = CTL_FILE THEN Target("RootCtl", vw.branch_name)
         ELSE IF StartsWith(name, <<"@">>) THEN Target("BranchDir", Tail(name))
         ELSE Target("RootPath", vw.branch_name)
    ELSE IF name = CTL_FILE THEN Target("BranchCtl", c.branch)
    ELSE IF StartsWith(name, <<"@">>) THEN Target("BranchDir", Tail(name))
    ELSE Target("BranchPath", c.branch)

\* The last operation: which, with what command (ctl, ioctl), on which mount,
\* on what kind of place, on which branch, whether the view was stale when it
\* came, what was replied, and the branch tree and epoch the manager held
\* when it came.
Last(op, cmd, v, t, stale, reply, val) ==
    [op |-> op, cmd |-> cmd, v |-> v, kind |-> t.kind, br |-> t.br,
     stale |-> stale, reply |-> reply, val |-> val,
     pre |-> [tree |-> [n \in DOMAIN branches |-> branches[n].parent],
              epoch |-> epoch],
     inval |-> {}]

\* ------------------------------------------------------------------ actions
\* A thread can run while the lock it needs is not held by a looping thread.
CanRun == steps < limit /\ wedged # "write"
CanWrite == steps < limit /\ wedged = "none"

\* A manager call made directly (the daemon's requests, the library's callers).
Mgr(op, b, cmd, m) ==
    /\ branches' = m.branches
    /\ store' = m.store
    /\ base' = m.base
    /\ epoch' = m.epoch
    /\ wedged' = m.wedged
    /\ last' = [Last(op, cmd, "mgr", Target("mgr", b), FALSE, m.res, NoVal)
                   EXCEPT !.inval = m.inval]
    /\ steps' = steps + 1
    /\ UNCHANGED <<opened, views, limit, faulty, notifiers, daemon, calls>>

CreateBranch ==
    /\ CanWrite
    /\ \E name \in NonMain \cup {AtName, NulName}, parent \in Names, fault \in Faults \cap {"none", "save"} :
          Mgr("create_branch", name, parent,
              create_branch(branches, store, base, epoch, name, parent, fault))

\* The record of a commit names the fault it met, if it came to the call
\* that fails.
Commit ==
    /\ CanWrite
    /\ \E b \in Names, fault \in Faults \ {"append"} :
          LET m == commit(branches, store, base, epoch, b, fault) IN
          Mgr("commit", b,
              IF m # commit(branches, store, base, epoch, b, "none") THEN <<fault>> ELSE NoVal,
              m)

Abort ==
    /\ CanWrite
    /\ \E b \in Names, fault \in Faults \cap {"none", "save", "notify"} :
          Mgr("abort", b, NoVal, abort(branches, store, base, epoch, b, fault))

AbortSingle ==
    /\ CanWrite
    /\ \E b \in Names, fault \in Faults \cap {"none", "save", "notify"} :
          Mgr("abort_single", b, NoVal, abort_single(branches, store, base, epoch, b, fault))

\* A FUSE request served by view v.
Fuse(op, cmd, v, t, o) ==
    /\ views' = [views EXCEPT ![v] = o.view]
    /\ branches' = o.branches
    /\ store' = o.store
    /\ base' = o.base
    /\ epoch' = o.epoch
    /\ opened' = o.opened
    /\ wedged' = o.wedged
    /\ last' = [Last(op, cmd, v, t, Stale(views[v]), o.reply, o.val)
                   EXCEPT !.inval = o.inval]
    /\ steps' = steps + 1
    /\ UNCHANGED <<limit, faulty, notifiers, daemon, calls>>

\* A session serves one request at a time: a view has one call at most under
\* way.
Idle(t) == calls[t].pc = "idle"
Busy(v) == \E t \in Threads : ~Idle(t) /\ calls[t].v = v

Serving(v) == views[v].alive /\ ~Busy(v)

Lookup(v) ==
    /\ CanRun /\ Serving(v)
    /\ \E parent \in TopInos(views[v]), name \in LookupNames :
          Fuse("lookup", NoVal, v, ChildTarget(views[v], parent, name),
               lookup(views[v], parent, name))

Getattr(v) ==
    /\ CanRun /\ Serving(v)
    /\ \E ino \in KnownInos(views[v]) \cup CtlInos(views[v]) :
          Fuse("getattr", NoVal, v, InoTarget(views[v], ino),
               getattr(views[v], ino))

Read(v) ==
    /\ CanRun /\ Serving(v)
    /\ \E ino \in FileInos(views[v]), size \in {2} :
          Fuse("read", NoVal, v, InoTarget(views[v], ino),
               read(views[v], ino, 0, size))

Write(v) ==
    /\ CanRun /\ Serving(v)
    /\ \E ino \in FileInos(views[v]), offset \in {0, 1}, data \in {<<"w">>} :
          Fuse("write", NoVal, v, InoTarget(views[v], ino),
               write(views[v], ino, offset, data, "none"))

\* write on a ctl file: the commands take the write side of the branch lock
WriteCtl(v) ==
    /\ CanWrite /\ Serving(v)
    /\ \E ino \in CtlInos(views[v]), cmd \in CtlCommands, fault \in Faults \ {"append"} :
          Fuse("ctl", cmd, v, InoTarget(views[v], ino),
               write(views[v], ino, 0, cmd, fault))

Readdir(v) ==
    /\ CanRun /\ Serving(v)
    /\ \E ino \in DirInos(views[v]), order \in Perms(Paths), border \in Perms(StoreNames \ {MAIN}) :
          Fuse("readdir", NoVal, v, InoTarget(views[v], ino),
               readdir(views[v], ino, order, border))

Create(v) ==
    /\ CanRun /\ Serving(v)
    /\ \E parent \in TopInos(views[v]), name \in FileNames \cup {CTL_FILE} :
          Fuse("create", NoVal, v, ChildTarget(views[v], parent, name),
               create(views[v], parent, name))

Mkdir(v) ==
    /\ CanRun /\ Serving(v)
    /\ \E parent \in TopInos(views[v]), name \in DirNames :
          Fuse("mkdir", NoVal, v, ChildTarget(views[v], parent, name),
               mkdir(views[v], parent, name))

\* The fault an unlink met, for the record of the last operation: the one
\* drawn, when the handler came to the call that fails.
Met(vw, parent, name, fault) ==
    IF unlink(vw, parent, name, fault) # unlink(vw, parent, name, "none")
    THEN <<fault>> ELSE NoVal

Unlink(v) ==
    /\ CanRun /\ Serving(v)
    /\ \E parent \in TopInos(views[v]), name \in FileNames \cup SyntheticNames,
          fault \in Faults \cap {"none", "append"} :
          Fuse("unlink", Met(views[v], parent, name, fault), v,
               ChildTarget(views[v], parent, name),
               unlink(views[v], parent, name, fault))

\* BranchFs::rmdir hands the request to unlink
Rmdir(v) ==
    /\ CanRun /\ Serving(v)
    /\ \E parent \in TopInos(views[v]), name \in DirNames \cup {<<"@">> \o B1},
          fault \in Faults \cap {"none", "append"} :
          Fuse("rmdir", Met(views[v], parent, name, fault), v,
               ChildTarget(views[v], parent, name),
               unlink(views[v], parent, name, fault))

Open(v) ==
    /\ CanRun /\ Serving(v)
    /\ \E ino \in KnownInos(views[v]) \cup CtlInos(views[v]) :
          Fuse("open", NoVal, v, InoTarget(views[v], ino),
               open(views[v], ino))

Setattr(v) ==
    /\ CanRun /\ Serving(v)
    /\ \E ino \in FileInos(views[v]) \cup CtlInos(views[v]), size \in {NoSize, <<0>>} :
          Fuse("setattr", NoVal, v, InoTarget(views[v], ino),
               setattr(views[v], ino, size))

Ioctl(v) ==
    /\ CanWrite /\ Serving(v)
    /\ \E cmd \in IoctlCommands, fault \in Faults \ {"append"} :
          Fuse("ioctl", <<cmd>>, v, Target("RootCtl", views[v].branch_name),
               ioctl(views[v], cmd, fault))

\* ------------------------------------------------------ calls in the middle
\* A handler whose steps other threads' calls can come between.
\* The reply of a call that was under way: as Fuse, and the thread is idle;
\* done: what the thread keeps of the call.
Reply(t, op, v, tgt, o, done) ==
    /\ views' = [views EXCEPT ![v] = o.view]
    /\ branches' = o.branches
    /\ store' = o.store
    /\ base' = o.base
    /\ epoch' = o.epoch
    /\ opened' = o.opened
    /\ wedged' = o.wedged
    /\ last' = Last(op, NoVal, v, tgt, calls[t].stale, o.reply, o.val)
    /\ steps' = steps + 1
    /\ calls' = [calls EXCEPT ![t] = done]
    /\ UNCHANGED <<limit, faulty, notifiers, daemon>>

\* A step of a call that replies nothing yet.
Proceed(t, st, call) ==
    /\ store' = st
    /\ calls' = [calls EXCEPT ![t] = call]
    /\ UNCHANGED <<branches, base, epoch, opened, wedged, views, last, steps, limit, faulty,
                   notifiers, daemon>>

\* BranchFs::create at a root path, up to File::create: the delta path taken
\* from the view's branch, the file created or truncated.
CreateBegin(t, v) ==
    /\ CanRun /\ Serving(v) /\ Idle(t)
    /\ \E parent \in TopInos(views[v]), name \in FileNames :
          LET c == classify_path(get_path(views[v].inodes, parent))
              path == ChildPath(c.rel, name)
              b == views[v].branch_name
          IN /\ c.kind = "RootPath"
             /\ is_branch_valid(branches, b)
             /\ DeltaNode(store, b, path).kind # "dir"
             /\ Proceed(t, PutDelta(store, b, path, File(<<>>)),
                        [pc |-> "created", v |-> v, parent |-> parent, name |-> name,
                         path |-> path, branch |-> b, stale |-> Stale(views[v]),
                         before |-> DeltaNode(store, b, path)])

\* BranchFs::create at a root path, from is_stale on: the file removed and
\* ESTALE, or the inode entry and the reply.
CreateEnd(t) ==
    /\ CanRun /\ calls[t].pc = "created"
    /\ LET c == calls[t]
           vw == views[c.v]
       IN Reply(t, "create", c.v, ChildTarget(vw, c.parent, c.name),
                IF Stale(vw)
                THEN Stored("ESTALE", vw,
                            PutDelta(store, c.branch, c.path, Absent))
                ELSE Stored("ok", [vw EXCEPT !.inodes = get_or_create(@, c.path, FALSE).it],
                            store),
                [pc |-> "idle"])

\* BranchFs::write on a file, up to the resolve in ensure_cow_for_branch: the
\* branch looked up, delta.exists() asked, the source of the copy resolved.
WriteBegin(t, v) ==
    /\ CanRun /\ Serving(v) /\ Idle(t)
    /\ \E ino \in FileInos(views[v]), offset \in {0, 1} :
          LET c == classify_path(get_path(views[v].inodes, ino))
              root_arm == c.kind = "RootPath"
              b == IF root_arm THEN views[v].branch_name ELSE c.branch
              rel == IF root_arm THEN get_path(views[v].inodes, ino) ELSE c.rel
          IN /\ c.kind \in {"RootPath", "BranchPath"}
             /\ is_branch_valid(branches, b)
             /\ resolve_for_branch(b, rel).tag # "hang"
             /\ Proceed(t, store,
                        [pc |-> "checked", v |-> v, ino |-> ino, branch |-> b, rel |-> rel,
                         offset |-> offset, data |-> <<"w">>, root_arm |-> root_arm,
                         missing |-> ~has_delta(store, b, rel),
                         src |-> resolve_for_branch(b, rel), stale |-> Stale(views[v])])

\* ensure_cow_for_branch, the copy: when the delta was missing and the source
\* is a regular file, storage::copy_file from the source, as it is now.
WriteCopy(t) ==
    /\ steps < limit /\ calls[t].pc = "checked"
    /\ LET c == calls[t]
           node == NodeAt(store, base, c.src, c.rel)
       IN Proceed(t,
                  IF c.missing /\ IsSome(c.src) /\ node.kind = "file"
                  THEN PutDelta(store, c.branch, c.rel, node) ELSE store,
                  [c EXCEPT !.pc = "copied"])

\* BranchFs::write on a file, from the open of the delta on: seek, write, and
\* at a root path is_stale.
WriteEnd(t) ==
    /\ CanRun /\ calls[t].pc = "copied"
    /\ LET c == calls[t]
           vw == views[c.v]
           node == DeltaNode(store, c.branch, c.rel)
       IN Reply(t, "write", c.v, InoTarget(vw, c.ino),
                IF node.kind = "dir" THEN Same("EIO", vw)
                ELSE Stored(IF c.root_arm /\ Stale(vw) THEN "ESTALE" ELSE "ok", vw,
                            PutDelta(store, c.branch, c.rel,
                                     File(Overlay(node.data, c.offset, c.data)))),
                [pc |-> "idle", v |-> c.v, branch |-> c.branch, rel |-> c.rel,
                 offset |-> c.offset, data |-> c.data,
                 landed |-> node.kind # "dir"])

\* ------------------------------------------- InodeManager, a step at a time
\* The calls of two threads on the inode table of one view, each lock taken
\* and each map touched in a step of its own. A read lock is taken, used and
\* dropped within one step: nothing else is asked for while it is held.
InodeView == "M1"
PATH_LOCK == "path_to_ino"
INO_LOCK == "ino_to_info"

\* The write locks a thread holds.
WriteLocks(t) == IF "locks" \in DOMAIN calls[t] THEN calls[t].locks ELSE {}
\* RwLock: no thread holds the lock's write side.
NoWriter(l) == \A t \in Threads : l \notin WriteLocks(t)

\* The get_or_create calls for the path that are under way in other threads.
Racing(t, path) ==
    {u \in Threads \ {t} : ~Idle(u) /\ calls[u].op = "get_or_create" /\ calls[u].path = path}

\* A step on the table: the table after it, the thread's call after it.
InodeStep(t, it, call) ==
    /\ views' = [views EXCEPT ![InodeView].inodes = it]
    /\ calls' = [calls EXCEPT ![t] = call]
    /\ UNCHANGED <<branches, store, base, epoch, opened, wedged, last, steps, limit, faulty,
                   notifiers, daemon>>

\* A call begins: the thread's call, and what the calls it meets keep of it.
InodeBegin(t, it, call, met) ==
    /\ steps < limit /\ Idle(t)
    /\ views' = [views EXCEPT ![InodeView].inodes = it]
    /\ calls' = [u \in Threads |->
                    IF u = t THEN call
                    ELSE IF "with" \in DOMAIN calls[u]
                         THEN [calls[u] EXCEPT !.with = IF u \in met THEN @ \cup {t}
                                                        ELSE @ \ {t}]
                         ELSE calls[u]]
    /\ steps' = steps + 1
    /\ UNCHANGED <<branches, store, base, epoch, opened, wedged, last, limit, faulty,
                   notifiers, daemon>>

\* What a thread keeps of a get_or_create that has returned.
GocDone(c, ino, how) ==
    [pc |-> "idle", v |-> c.v, op |-> c.op, path |-> c.path, ret |-> ino, how |-> how,
     with |-> c.with, cut |-> c.cut]

\* InodeManager::get_or_create, the look under the read lock.
GocRead(t) ==
    \E path \in FilePaths \cup DirPaths :
        LET it == views[InodeView].inodes
            c == [pc |-> "goc_miss", v |-> InodeView, op |-> "get_or_create", path |-> path,
                  is_dir |-> path \in DirPaths, locks |-> {}, with |-> Racing(t, path),
                  cut |-> FALSE]
        IN /\ NoWriter(PATH_LOCK)
           /\ InodeBegin(t, it,
                         IF path \in DOMAIN it.path_to_ino
                         THEN GocDone(c, it.path_to_ino[path], "read") ELSE c,
                         Racing(t, path))

\* Faulty variant of GocLockPath: the ino map's lock is the one taken first.
GocLockInoFirst(t) ==
    /\ ~Idle(t) /\ calls[t].pc = "goc_miss"
    /\ NoWriter(INO_LOCK)
    /\ InodeStep(t, views[InodeView].inodes,
                 [calls[t] EXCEPT !.pc = "goc_p", !.locks = {INO_LOCK}])
\* InodeManager::get_or_create: self.path_to_ino.write()
GocLockPath(t) ==
    /\ ~Idle(t) /\ calls[t].pc = "goc_miss"
    /\ NoWriter(PATH_LOCK)
    /\ InodeStep(t, views[InodeView].inodes,
                 [calls[t] EXCEPT !.pc = "goc_p", !.locks = {PATH_LOCK}])

\* InodeManager::get_or_create: self.ino_to_info.write()
GocLockIno(t) ==
    /\ ~Idle(t) /\ calls[t].pc = "goc_p"
    /\ \A l \in {PATH_LOCK, INO_LOCK} \ WriteLocks(t) : NoWriter(l)
    /\ InodeStep(t, views[InodeView].inodes,
                 [calls[t] EXCEPT !.pc = "goc_pi", !.locks = {PATH_LOCK, INO_LOCK}])

\* Faulty variant of GocCheck: the path is not looked up again under the
\* write locks.
GocNoCheck(t) ==
    /\ ~Idle(t) /\ calls[t].pc = "goc_pi"
    /\ InodeStep(t, views[InodeView].inodes, [calls[t] EXCEPT !.pc = "goc_new"])
\* InodeManager::get_or_create: the path looked up again under both write locks
GocCheck(t) ==
    /\ ~Idle(t) /\ calls[t].pc = "goc_pi"
    /\ LET it == views[InodeView].inodes
           c == calls[t]
       IN InodeStep(t, it,
                    IF c.path \in DOMAIN it.path_to_ino
                    THEN GocDone(c, it.path_to_ino[c.path], "check")
                    ELSE [c EXCEPT !.pc = "goc_new"])

\* InodeManager::get_or_create: next_ino.fetch_add(1), path_map.insert
GocInsertPath(t) ==
    /\ ~Idle(t) /\ calls[t].pc = "goc_new"
    /\ LET it == views[InodeView].inodes
           c == calls[t]
           ino == it.next_ino
       IN InodeStep(t, [it EXCEPT !.next_ino = Succ64(ino),
                                  !.path_to_ino = (c.path :> ino) @@ @],
                    [pc |-> "goc_path", v |-> c.v, op |-> c.op, path |-> c.path,
                     is_dir |-> c.is_dir, locks |-> c.locks, with |-> c.with,
                     cut |-> c.cut, ino |-> ino])

\* InodeManager::get_or_create: info_map.insert, the locks dropped, the return
GocInsertInfo(t) ==
    /\ ~Idle(t) /\ calls[t].pc = "goc_path"
    /\ LET it == views[InodeView].inodes
           c == calls[t]
       IN InodeStep(t, [it EXCEPT !.ino_to_info =
                            (c.ino :> [path |-> c.path, is_dir |-> c.is_dir]) @@ @],
                    GocDone(c, c.ino, "new"))

\* The paths a removing call takes out of the path map.
Gone(it, op, arg) ==
    CASE op = "remove" -> {arg} \cap DOMAIN it.path_to_ino
      [] op = "clear_prefix" -> {p \in DOMAIN it.path_to_ino : StartsWith(p, arg)}
      [] op = "clear" -> DOMAIN it.path_to_ino

\* InodeManager::remove, clear_prefix, clear: self.path_to_ino.write()
DropLockPath(t) ==
    \E op \in {"remove", "clear_prefix", "clear"} :
    \E arg \in (IF op = "remove" THEN FilePaths \cup DirPaths
                ELSE IF op = "clear_prefix" THEN DirPaths \cup {RootPath}
                ELSE {NoPath}) :
        /\ NoWriter(PATH_LOCK)
        /\ InodeBegin(t, views[InodeView].inodes,
                      [pc |-> "drop_p", v |-> InodeView, op |-> op, arg |-> arg,
                       locks |-> {PATH_LOCK}],
                      {})

\* InodeManager::remove, clear_prefix, clear: self.ino_to_info.write()
DropLockIno(t) ==
    /\ ~Idle(t) /\ calls[t].pc = "drop_p"
    /\ NoWriter(INO_LOCK)
    /\ InodeStep(t, views[InodeView].inodes,
                 [calls[t] EXCEPT !.pc = "drop_pi", !.locks = {PATH_LOCK, INO_LOCK}])

\* InodeManager::remove, clear_prefix, clear: the path map's entries taken out
\* (clear: the root's entry put back). The get_or_create calls whose path goes
\* are marked.
DropPathEntries(t) ==
    /\ ~Idle(t) /\ calls[t].pc = "drop_pi"
    /\ LET it == views[InodeView].inodes
           c == calls[t]
           gone == Gone(it, c.op, c.arg)
           kept == [p \in DOMAIN it.path_to_ino \ gone |-> it.path_to_ino[p]]
       IN /\ views' = [views EXCEPT ![InodeView].inodes.path_to_ino =
                          IF c.op = "clear" THEN (RootPath :> ROOT_INO) ELSE kept]
          /\ calls' = [u \in Threads |->
                          IF u = t
                          THEN [pc |-> "drop_path", v |-> c.v, op |-> c.op, arg |-> c.arg,
                                locks |-> c.locks,
                                inos |-> {it.path_to_ino[p] : p \in gone}]
                          ELSE IF "cut" \in DOMAIN calls[u] /\ calls[u].path \in gone
                               THEN [calls[u] EXCEPT !.cut = TRUE]
                               ELSE calls[u]]
          /\ UNCHANGED <<branches, store, base, epoch, opened, wedged, last, steps, limit,
                         faulty, notifiers, daemon>>

\* InodeManager::remove, clear_prefix, clear: the records of the numbers taken
\* out (clear: all of them, the root's put back), the locks dropped.
DropInfoEntries(t) ==
    /\ ~Idle(t) /\ calls[t].pc = "drop_path"
    /\ LET it == views[InodeView].inodes
           c == calls[t]
       IN InodeStep(t, [it EXCEPT !.ino_to_info =
                            IF c.op = "clear"
                            THEN (ROOT_INO :> [path |-> RootPath, is_dir |-> TRUE])
                            ELSE [i \in DOMAIN it.ino_to_info \ c.inos |-> it.ino_to_info[i]]],
                    [pc |-> "idle", v |-> c.v, op |-> c.op, arg |-> c.arg])

\* InodeManager::get_ino: the look under the path map's read lock
GetIno(t) ==
    \E path \in FilePaths \cup DirPaths :
        LET it == views[InodeView].inodes IN
        /\ NoWriter(PATH_LOCK)
        /\ InodeBegin(t, it,
                      [pc |-> "idle", v |-> InodeView, op |-> "get_ino", path |-> path,
                       found |-> path \in DOMAIN it.path_to_ino,
                       ret |-> IF path \in DOMAIN it.path_to_ino THEN it.path_to_ino[path]
                               ELSE Lo(0)],
                      {})

\* InodeManager::get_path: the look under the ino map's read lock
GetPath(t) ==
    \E ino \in {Lo(2), Lo(3)} :
        /\ NoWriter(INO_LOCK)
        /\ InodeBegin(t, views[InodeView].inodes,
                      [pc |-> "idle", v |-> InodeView, op |-> "get_path", ino |-> ino,
                       ret |-> get_path(views[InodeView].inodes, ino)],
                      {})

\* ------------------------------------- invalidation, a lock at a time
\* commit, abort and abort_single from drop(branches) on, with the handlers
\* and the daemon's calls that other threads make meanwhile. The branch-tree
\* lock is taken, used and dropped within one step by each of them.
NOTIFIERS_LOCK == "notifiers"
OPENED_LOCK == "opened_inodes"

\* A step that changes nothing but the threads' calls.
CallStep(cs) ==
    /\ calls' = cs
    /\ UNCHANGED <<branches, store, base, epoch, opened, wedged, views, last, steps, limit,
                   faulty, notifiers, daemon>>

\* The calls after a handler on the mount has replied: an inval_inode call
\* that the kernel holds until the session has answered goes on.
Answered(cs, v) ==
    [t \in Threads |->
        IF cs[t].pc = "in_inval" /\ cs[t].cb = "wanted" /\ cs[t].cur.mountpoint = v
        THEN [cs[t] EXCEPT !.cb = "served"]
        ELSE cs[t]]

\* BranchManager::commit, abort, abort_single up to drop(branches): the write
\* lock taken, the branch set changed, the lock dropped.
InvalidatingCall(t) ==
    /\ CanWrite /\ Idle(t)
    /\ \E op \in {"commit", "abort", "abort_single"}, b \in NonMain :
          LET m == CASE op = "commit" -> commit(branches, store, base, epoch, b, "none")
                     [] op = "abort" -> abort(branches, store, base, epoch, b, "none")
                     [] op = "abort_single" ->
                            abort_single(branches, store, base, epoch, b, "none")
          IN /\ branches' = m.branches
             /\ store' = m.store
             /\ base' = m.base
             /\ epoch' = m.epoch
             /\ wedged' = m.wedged
             /\ last' = Last(op, NoVal, "mgr", Target("mgr", b), FALSE, m.res, NoVal)
             /\ steps' = steps + 1
             /\ calls' = [calls EXCEPT ![t] =
                            IF m.res = "ok"
                            THEN [pc |-> "released", v |-> "mgr", op |-> op, locks |-> {},
                                  names |-> DOMAIN branches \ DOMAIN m.branches]
                            ELSE [pc |-> "idle"]]
             /\ UNCHANGED <<opened, views, limit, faulty, notifiers, daemon>>

\* invalidate_all_mounts, invalidate_branches: self.notifiers.lock()
InvalLockNotifiers(t) ==
    /\ ~Idle(t) /\ calls[t].pc = "released"
    /\ NoWriter(NOTIFIERS_LOCK)
    /\ CallStep([calls EXCEPT ![t] = [@ EXCEPT !.pc = "inval_n",
                                               !.locks = {NOTIFIERS_LOCK}]])

\* invalidate_all_mounts, invalidate_branches: self.opened_inodes.lock(); the
\* calls of inval_inode the loops will make.
InvalLockOpened(t) ==
    /\ ~Idle(t) /\ calls[t].pc = "inval_n"
    /\ NoWriter(OPENED_LOCK)
    /\ LET c == calls[t] IN
       CallStep([calls EXCEPT ![t] =
                    [pc |-> "inval", v |-> c.v, op |-> c.op,
                     locks |-> {NOTIFIERS_LOCK, OPENED_LOCK},
                     pending |-> IF c.op = "commit" THEN invalidate_all_mounts("none")
                                 ELSE invalidate_branches(c.names, "none")]])

\* notifier.inval_inode is called. cb: whether the kernel holds the call until
\* the mount's session has answered one more request.
InvalInode(t) ==
    /\ ~Idle(t) /\ calls[t].pc = "inval"
    /\ \E k \in calls[t].pending, cb \in {"none", "wanted"} :
          LET c == calls[t] IN
          CallStep([calls EXCEPT ![t] =
                       [pc |-> "in_inval", v |-> c.v, op |-> c.op, locks |-> c.locks,
                        pending |-> c.pending, cur |-> k, cb |-> cb]])

\* notifier.inval_inode returns.
InvalInodeReturn(t) ==
    /\ ~Idle(t) /\ calls[t].pc = "in_inval" /\ calls[t].cb # "wanted"
    /\ LET c == calls[t] IN
       CallStep([calls EXCEPT ![t] =
                    [pc |-> "inval", v |-> c.v, op |-> c.op, locks |-> c.locks,
                     pending |-> c.pending \ {c.cur}]])

\* The loops are over: the two mutexes are dropped, the call returns Ok.
InvalDone(t) ==
    /\ ~Idle(t) /\ calls[t].pc = "inval" /\ calls[t].pending = {}
    /\ CallStep([calls EXCEPT ![t] = [pc |-> "idle", v |-> calls[t].v, op |-> calls[t].op]])

\* The branch under which open registers the inode, NoName when it replies
\* before register_opened_inode.
RegistersUnder(vw, ino) ==
    IF ino = CTL_INO \/ branch_for_ctl_ino(vw, ino) # NoName THEN NoName
    ELSE LET path == get_path(vw.inodes, ino) IN
         IF path = NoPath THEN NoName
         ELSE LET c == classify_path(path) IN
              IF c.kind \in {"BranchDir", "BranchCtl"} THEN NoName
              ELSE IF open(vw, ino).reply # "ok" THEN NoName
              ELSE IF c.kind = "BranchPath" THEN c.branch ELSE vw.branch_name

\* BranchFs::open up to register_opened_inode: the checks and the resolution
\* under the branch-tree lock.
OpenBegin(t) ==
    /\ CanRun /\ Idle(t)
    /\ \E v \in DOMAIN views :
       \E ino \in KnownInos(views[v]) \cup {CTL_INO} :
          LET b == RegistersUnder(views[v], ino)
              o == open(views[v], ino)
          IN /\ Serving(v)
             /\ views' = [views EXCEPT ![v] = o.view]
             /\ wedged' = o.wedged
             /\ steps' = steps + 1
             /\ IF b = NoName
                THEN /\ last' = Last("open", NoVal, v, InoTarget(views[v], ino), FALSE,
                                     o.reply, NoVal)
                     /\ calls' = Answered(calls, v)
                ELSE /\ last' = last
                     /\ calls' = [calls EXCEPT ![t] =
                                     [pc |-> "resolved", v |-> v, ino |-> ino, branch |-> b,
                                      locks |-> {}]]
             /\ UNCHANGED <<branches, store, base, epoch, opened, limit, faulty, notifiers,
                            daemon>>

\* BranchManager::register_opened_inode, and the reply of open.
OpenRegister(t) ==
    /\ ~Idle(t) /\ calls[t].pc = "resolved"
    /\ NoWriter(OPENED_LOCK)
    /\ LET c == calls[t] IN
       /\ opened' = register_opened_inode(opened, c.branch, c.ino)
       /\ last' = Last("open", NoVal, c.v, InoTarget(views[c.v], c.ino), FALSE, "ok", NoVal)
       /\ calls' = Answered([calls EXCEPT ![t] = [pc |-> "idle", v |-> c.v, ino |-> c.ino]],
                            c.v)
       /\ UNCHANGED <<branches, store, base, epoch, wedged, views, steps, limit, faulty,
                      notifiers, daemon>>

\* The daemon is about to call register_notifier or unregister_notifier.
NotifierBegin(t) ==
    /\ steps < limit /\ Idle(t)
    /\ \E op \in {"register_notifier", "unregister_notifier"},
          b \in NonMain, v \in DOMAIN views :
          /\ calls' = [calls EXCEPT ![t] =
                          [pc |-> "want_notifiers", v |-> "daemon", op |-> op, branch |-> b,
                           mountpoint |-> v, locks |-> {}]]
          /\ steps' = steps + 1
          /\ UNCHANGED <<branches, store, base, epoch, opened, wedged, views, last, limit,
                         faulty, notifiers, daemon>>

\* BranchManager::register_notifier, unregister_notifier
NotifierChange(t) ==
    /\ ~Idle(t) /\ calls[t].pc = "want_notifiers"
    /\ NoWriter(NOTIFIERS_LOCK)
    /\ LET c == calls[t] IN
       /\ notifiers' = IF c.op = "register_notifier"
                       THEN notifiers \cup {<<c.branch, c.mountpoint>>}
                       ELSE notifiers \ {<<c.branch, c.mountpoint>>}
       /\ calls' = [calls EXCEPT ![t] = [pc |-> "idle", v |-> c.v, op |-> c.op]]
       /\ UNCHANGED <<branches, store, base, epoch, opened, wedged, views, last, steps, limit,
                      faulty, daemon>>

\* ---------------------------------------------- commit, a file at a time
\* BranchManager::commit with each removal and each copy a step of its own,
\* the branch-tree write lock held from the first to the last (wedged is
\* "write" meanwhile), and the handlers that touch the disk between two
\* lockings of their own.

\* A step of a call that has not replied: the base and the thread's call.
DiskStep(t, bs, call) ==
    /\ base' = bs
    /\ calls' = [calls EXCEPT ![t] = call]
    /\ UNCHANGED <<branches, store, epoch, opened, wedged, views, last, steps, limit, faulty,
                   notifiers, daemon>>

\* BranchManager::commit: self.branches.write(), get_branch_chain,
\* collect_changes.
CommitLock(t) ==
    /\ CanWrite /\ Idle(t)
    /\ \E b \in NonMain :
          LET c == get_branch_chain(branches, b) IN
          /\ c.st = "ok"
          /\ LET ch == collect_changes(branches, store, c.chain) IN
             calls' = [calls EXCEPT ![t] =
                          [pc |-> "committing", v |-> "mgr", op |-> "commit", branch |-> b,
                           deletions |-> ch.deletions, files |-> ch.files, filling |-> NoPath,
                           changes |-> ch, pre |-> base]]
          /\ wedged' = "write"
          /\ steps' = steps + 1
          /\ UNCHANGED <<branches, store, base, epoch, opened, views, last, limit, faulty,
                         notifiers, daemon>>

\* BranchManager::commit, the first loop: one path of the deletions removed
\* from the base.
CommitDelete(t) ==
    /\ ~Idle(t) /\ calls[t].pc = "committing"
    /\ \E p \in calls[t].deletions :
          DiskStep(t, IF p \in Paths THEN [base EXCEPT ![p] = Absent] ELSE base,
                   [calls[t] EXCEPT !.deletions = @ \ {p}])

\* BranchManager::commit, the second loop: fs::copy opens the destination,
\* created or truncated.
CommitCreate(t) ==
    /\ ~Idle(t) /\ calls[t].pc = "committing"
    /\ calls[t].deletions = {} /\ calls[t].filling = NoPath
    /\ \E p \in DOMAIN calls[t].files :
          DiskStep(t, [base EXCEPT ![p] = File(<<>>)], [calls[t] EXCEPT !.filling = p])

\* BranchManager::commit, the second loop: fs::copy has written the content.
CommitFill(t) ==
    /\ ~Idle(t) /\ calls[t].pc = "committing" /\ calls[t].filling # NoPath
    /\ LET c == calls[t]
           p == c.filling
       IN DiskStep(t, [base EXCEPT ![p] = store[c.files[p]].files[p]],
                   [c EXCEPT !.filling = NoPath,
                             !.files = [q \in DOMAIN c.files \ {p} |-> c.files[q]]])

\* BranchManager::commit after the loops: branches.clear(), main inserted,
\* the epoch advanced, the lock dropped.
CommitFinish(t) ==
    /\ ~Idle(t) /\ calls[t].pc = "committing"
    /\ calls[t].deletions = {} /\ DOMAIN calls[t].files = {}
    /\ branches' = FreshMain(store)
    /\ epoch' = epoch + 1
    /\ wedged' = "none"
    /\ last' = Last("commit", NoVal, "mgr", Target("mgr", calls[t].branch), FALSE, "ok", NoVal)
    /\ calls' = [calls EXCEPT ![t] =
                    [pc |-> "idle", v |-> "mgr", op |-> "commit", branch |-> calls[t].branch,
                     changes |-> calls[t].changes, pre |-> calls[t].pre]]
    /\ UNCHANGED <<store, base, opened, views, steps, limit, faulty, notifiers, daemon>>

\* The names a listing of the branch's top directory holds besides the dots,
\* the ctl file and the branches, when it is taken in one piece.
ListedWhole(b) ==
    LET es == TopEntries(b, BranchDirPath(b), CHOOSE o \in Perms(Paths) : TRUE) IN
    {es[i].name : i \in 1..Len(es)}

\* The names the base directory holds at its top.
ListedInBase == {Tail(p) : p \in {q \in Paths : BaseNode(base, q).kind # "none"}}

\* BranchFs::readdir of a branch directory: is_branch_valid under the
\* branch-tree lock.
BranchReaddirBegin(t) ==
    /\ CanRun /\ Idle(t)
    /\ \E v \in DOMAIN views :
       \E ino \in DirInos(views[v]) :
          LET c == classify_path(get_path(views[v].inodes, ino)) IN
          /\ Serving(v)
          /\ c.kind = "BranchDir" /\ is_branch_valid(branches, c.branch)
          /\ calls' = [calls EXCEPT ![t] =
                          [pc |-> "rd_valid", v |-> v, op |-> "readdir", ino |-> ino,
                           branch |-> c.branch, whole |-> {ListedWhole(c.branch)}]]
          /\ steps' = steps + 1
          /\ UNCHANGED <<branches, store, base, epoch, opened, wedged, views, last, limit,
                         faulty, notifiers, daemon>>

\* collect_branch_readdir_entries: read_dir of the base directory, a number
\* given to each entry. No lock is held.
BranchReaddirBase(t) ==
    /\ ~Idle(t) /\ calls[t].pc = "rd_valid"
    /\ \E order \in Perms(Paths) :
          LET c == calls[t]
              InBase(p) == BaseNode(base, p).kind # "none"
              from_base == SelectSeq(order, InBase)
              entries == [i \in 1..Len(from_base) |->
                            Entry(BranchDirPath(c.branch) \o from_base[i],
                                  BaseNode(base, from_base[i]).kind = "dir",
                                  Tail(from_base[i]))]
          IN /\ views' = [views EXCEPT ![c.v].inodes = AllocAll(@, entries)]
             /\ calls' = [calls EXCEPT ![t] =
                             [pc |-> "rd_base", v |-> c.v, op |-> c.op, ino |-> c.ino,
                              branch |-> c.branch, whole |-> c.whole, entries |-> entries]]
             /\ UNCHANGED <<branches, store, base, epoch, opened, wedged, last, steps, limit,
                            faulty, notifiers, daemon>>

\* collect_branch_readdir_entries: resolve_for_branch under the branch-tree
\* lock and read_dir of the branch's delta directory; then the ctl file and
\* the children of the branch; the reply.
BranchReaddirEnd(t) ==
    /\ ~Idle(t) /\ calls[t].pc = "rd_base"
    /\ wedged # "write"
    /\ \E order \in Perms(Paths), border \in Perms(StoreNames \ {MAIN}) :
          LET c == calls[t]
              vw == views[c.v]
              prefix == BranchDirPath(c.branch)
              seen == {c.entries[i].name : i \in 1..Len(c.entries)}
              valid == is_branch_valid(branches, c.branch)
              InDelta(p) == /\ valid /\ Tail(p) \notin seen
                            /\ DeltaNode(store, c.branch, p).kind # "none"
              from_delta == SelectSeq(order, InDelta)
              deltas == [i \in 1..Len(from_delta) |->
                            Entry(prefix \o from_delta[i],
                                  DeltaNode(store, c.branch, from_delta[i]).kind = "dir",
                                  Tail(from_delta[i]))]
              files == c.entries \o deltas
              vw1 == [vw EXCEPT !.inodes = AllocAll(@, deltas)]
              vw2 == get_or_create_branch_ctl_ino(vw1, c.branch).vw
              kids == BranchEntries(get_children(branches, c.branch), prefix, border)
              names == Dots \o EntryNames(files) \o <<CTL_FILE>> \o EntryNames(kids)
          IN /\ views' = [views EXCEPT ![c.v] = [vw2 EXCEPT !.inodes = AllocAll(@, kids)]]
             /\ last' = Last("readdir", NoVal, c.v, Target("BranchDir", c.branch), FALSE,
                             "ok", names)
             /\ calls' = [calls EXCEPT ![t] =
                             [pc |-> "idle", v |-> c.v, op |-> c.op, reply |-> "ok",
                              got |-> {files[i].name : i \in 1..Len(files)},
                              whole |-> c.whole \cup {IF valid THEN ListedWhole(c.branch)
                                                       ELSE ListedInBase}]]
             /\ UNCHANGED <<branches, store, base, epoch, opened, wedged, steps, limit, faulty,
                            notifiers, daemon>>

\* The reply of a read that was under way.
ReadReply(t, reply, data, whole) ==
    /\ last' = Last("read", NoVal, calls[t].v, Target("RootPath", views[calls[t].v].branch_name),
                    FALSE, reply, data)
    /\ calls' = [calls EXCEPT ![t] =
                    [pc |-> "idle", v |-> calls[t].v, op |-> "read", reply |-> reply,
                     got |-> data, whole |-> whole]]
    /\ UNCHANGED <<branches, store, base, epoch, opened, wedged, views, steps, limit, faulty,
                   notifiers, daemon>>

\* BranchFs::read at a root path: is_stale, get_path, resolve, under the
\* branch-tree lock.
RootReadBegin(t) ==
    /\ CanRun /\ Idle(t)
    /\ \E v \in DOMAIN views :
       \E ino \in FileInos(views[v]) :
          LET vw == views[v]
              path == get_path(vw.inodes, ino)
              r == resolve_for_branch(vw.branch_name, path)
          IN /\ Serving(v)
             /\ classify_path(path).kind = "RootPath"
             /\ ~Stale(vw) /\ IsSome(r)
             /\ calls' = [calls EXCEPT ![t] =
                             [pc |-> "read_resolved", v |-> v, op |-> "read", ino |-> ino,
                              path |-> path, src |-> r,
                              whole |-> {NodeAt(store, base, r, path)}]]
             /\ steps' = steps + 1
             /\ UNCHANGED <<branches, store, base, epoch, opened, wedged, views, last, limit,
                            faulty, notifiers, daemon>>

\* BranchFs::read at a root path: std::fs::read(resolved). No lock is held.
RootReadFile(t) ==
    /\ ~Idle(t) /\ calls[t].pc = "read_resolved"
    /\ LET c == calls[t]
           node == NodeAt(store, base, c.src, c.path)
       IN IF node.kind # "file"
          THEN ReadReply(t, "EIO", NoVal, c.whole)
          ELSE CallStep([calls EXCEPT ![t] =
                            [pc |-> "read_done", v |-> c.v, op |-> c.op, ino |-> c.ino,
                             path |-> c.path, src |-> c.src, whole |-> c.whole,
                             data |-> node.data]])

\* BranchFs::is_stale after the read: the epoch is loaded.
RootReadEpoch(t) ==
    /\ ~Idle(t) /\ calls[t].pc = "read_done"
    /\ IF epoch # views[calls[t].v].current_epoch
       THEN ReadReply(t, "ESTALE", NoVal, calls[t].whole)
       ELSE CallStep([calls EXCEPT ![t] = [@ EXCEPT !.pc = "read_epoch"]])

\* BranchFs::is_stale after the read: is_branch_valid under the branch-tree
\* lock; the reply.
RootReadEnd(t) ==
    /\ ~Idle(t) /\ calls[t].pc = "read_epoch"
    /\ wedged # "write"
    /\ LET c == calls[t] IN
       IF ~is_branch_valid(branches, views[c.v].branch_name)
       THEN ReadReply(t, "ESTALE", NoVal, c.whole)
       ELSE ReadReply(t, "ok", Slice(c.data, 0, 2),
                      c.whole \cup {NodeAt(store, base, c.src, c.path)})

\* -------------------------------------------------------------------- Daemon
\* A request handled on the connection that run holds, and its response.
Handled(op, mp, b, ok, d) ==
    /\ daemon.at = "client" /\ steps < limit
    /\ daemon' = d
    /\ last' = Last(op, NoVal, mp, Target("daemon", b), FALSE,
                    IF ok THEN "ok" ELSE "err", NoVal)
    /\ steps' = steps + 1
    /\ UNCHANGED <<branches, store, base, epoch, opened, wedged, views, limit, faulty, notifiers,
                   calls>>

\* Daemon::run: accept hands the connection to handle_client.
Accept ==
    /\ daemon.at = "accept" /\ ~daemon.shutdown /\ steps < limit
    /\ daemon' = [daemon EXCEPT !.at = "client"]
    /\ UNCHANGED <<branches, store, base, epoch, opened, wedged, views, last, steps, limit,
                   faulty, notifiers, calls>>

\* Request::Mount, Daemon::spawn_mount: when the session was spawned, a
\* MountInfo is inserted over the entry the mountpoint had: the branch the
\* daemon holds the mount to be on, and the branch set and the notifier keys
\* of the manager made for the mount.
DMount ==
    /\ \E mp \in Mounts, branch \in Names, spawned \in BOOLEAN :
           Handled("mount", mp, branch, spawned,
                   IF spawned
                   THEN [daemon EXCEPT !.mounts =
                            [m \in DOMAIN @ \cup {mp} |->
                                IF m = mp
                                THEN [current_branch |-> branch,
                                      branches |-> (MAIN :> BranchNew(EmptyStore, MAIN, NoName)),
                                      notifiers |-> {<<branch, mp>>}]
                                ELSE @[m]]]
                   ELSE daemon)

\* Request::Unmount, Daemon::unmount
DUnmount ==
    /\ \E mp \in Mounts :
           IF mp \in DOMAIN daemon.mounts
           THEN LET mounts == [m \in DOMAIN daemon.mounts \ {mp} |-> daemon.mounts[m]]
                    should_shutdown == DOMAIN mounts = {}
                IN Handled("unmount", mp, NoName, TRUE,
                           [daemon EXCEPT !.mounts = mounts,
                                          !.shutdown = IF should_shutdown THEN TRUE ELSE @])
           ELSE Handled("unmount", mp, NoName, FALSE, daemon)

\* Request::Create, Daemon::create_branch on the mount's manager
DCreate ==
    /\ \E mp \in Mounts, name \in NonMain, parent \in Names :
          IF mp \in DOMAIN daemon.mounts
          THEN LET m == create_branch(daemon.mounts[mp].branches, EmptyStore, base, 0,
                                      name, parent, "none")
               IN Handled("create", mp, name, m.res = "ok",
                          [daemon EXCEPT !.mounts[mp].branches = m.branches])
          ELSE Handled("create", mp, name, FALSE, daemon)

\* Request::NotifySwitch on the mount's entry: the notifier unregistered from
\* the branch held, the branch named held, the notifier registered under it.
NotifySwitched(info, mp, branch) ==
    [info EXCEPT !.notifiers = (@ \ {<<info.current_branch, mp>>}) \cup {<<branch, mp>>},
                 !.current_branch = branch]

\* Request::NotifySwitch: the notifier is moved to the branch named
DNotifySwitch ==
    /\ \E mp \in Mounts, branch \in Names :
          IF mp \in DOMAIN daemon.mounts
          THEN Handled("notify_switch", mp, branch, TRUE,
                       [daemon EXCEPT !.mounts[mp] = NotifySwitched(@, mp, branch)])
          ELSE Handled("notify_switch", mp, branch, FALSE, daemon)

\* Request::List
DList ==
    /\ \E mp \in Mounts :
          Handled("list", mp, NoName, mp \in DOMAIN daemon.mounts, daemon)

\* Request::Shutdown: handle_client writes the response and exits the process.
DShutdown ==
    /\ Handled("shutdown", "mgr", NoName, TRUE,
               [daemon EXCEPT !.at = "exited", !.asked = TRUE])

\* ----------------------------------------------------------------- the CLI
\* The commands of main.rs on a mount the daemon tracks. The mount's manager
\* is the one the view runs on: its branch set and its notifier keys are kept
\* in the daemon's entry as well. A command runs from its first request to
\* its return before the next begins.
CliMount == "M1"

\* main.rs, get_parent_branch: the branch the daemon holds the mount to be on,
\* asked for with GetMountBranch, and its parent taken from the answer to List;
\* "main" when a request is not answered with ok, when the branch is main or
\* when the list does not hold it. answered: whether the daemon answers these
\* requests (Daemon::handle_client answers "Invalid request" to a line that is
\* no Request of its own).
get_parent_branch(mp, answered) ==
    IF ~answered \/ mp \notin DOMAIN daemon.mounts THEN MAIN
    ELSE LET current == daemon.mounts[mp].current_branch IN
         IF current = MAIN THEN MAIN
         ELSE IF current \in DOMAIN branches /\ branches[current].parent # NoName
         THEN branches[current].parent
         ELSE MAIN

\* A command of the CLI that ran to its return or to the error it stopped at:
\* what the FUSE handler and the daemon's handlers left.
Cli(op, b, reply, o, nf, d) ==
    /\ views' = [views EXCEPT ![CliMount] = o.view]
    /\ branches' = o.branches
    /\ store' = o.store
    /\ base' = o.base
    /\ epoch' = o.epoch
    /\ opened' = o.opened
    /\ wedged' = o.wedged
    /\ notifiers' = nf
    /\ daemon' = d
    /\ last' = Last(op, NoVal, CliMount, Target("daemon", b), FALSE, reply, NoVal)
    /\ steps' = steps + 1
    /\ UNCHANGED <<limit, faulty, calls>>

\* A command can run: the daemon accepts connections, the session serves.
CanCli == CanWrite /\ Serving(CliMount) /\ daemon.at = "accept" /\ ~daemon.shutdown

\* The daemon's entry after the mount's manager changed.
Tracked(d, mp, brs, nf) ==
    IF mp \in DOMAIN d.mounts
    THEN [d EXCEPT !.mounts[mp].branches = brs, !.mounts[mp].notifiers = nf]
    ELSE d

\* Commands::Mount, Request::Mount, Daemon::spawn_mount: the view made on the
\* branch named, its notifier registered, the MountInfo inserted.
CliMounted ==
    /\ CanCli /\ CliMount \notin DOMAIN daemon.mounts
    /\ Cli("cli_mount", views[CliMount].branch_name, "ok", Same("ok", views[CliMount]),
           notifiers,
           [daemon EXCEPT !.mounts =
               (CliMount :> [current_branch |-> views[CliMount].branch_name,
                             branches |-> branches,
                             notifiers |-> notifiers]) @@ @])

\* Commands::Create: Request::Create; when the daemon created the branch,
\* "switch:<name>" written to the root ctl file, then Request::NotifySwitch
\* with the name, its response not looked at.
CliCreate ==
    /\ CanCli /\ CliMount \in DOMAIN daemon.mounts
    /\ \E name \in NonMain, parent \in Names, answered \in BOOLEAN :
          LET vw == views[CliMount]
              m == IF answered
                   THEN create_branch(branches, store, base, epoch, name, parent, "none")
                   ELSE MgrResult("err", branches, store, base, epoch, "none")
          IN IF m.res # "ok"
             THEN Cli("cli_create", name, "err", Same("err", vw), notifiers, daemon)
             ELSE LET info == NotifySwitched(daemon.mounts[CliMount], CliMount, name) IN
                  Cli("cli_create", name, "ok",
                      AfterMgr("ok", switch_to_branch(vw, name, m.epoch), m),
                      info.notifiers,
                      [daemon EXCEPT !.mounts[CliMount] =
                          [info EXCEPT !.branches = m.branches]])

\* Commands::Commit and Commands::Abort: the parent determined, the command
\* written to the root ctl file, then Request::NotifySwitch with the parent.
CliEnd(op, cmd) ==
    /\ CanCli /\ CliMount \in DOMAIN daemon.mounts
    /\ \E answered \in BOOLEAN :
          LET parent == get_parent_branch(CliMount, answered)
              o == write(views[CliMount], CTL_INO, 0, cmd, "none")
          IN IF o.reply # "ok"
             THEN Cli(op, parent, "err", o, notifiers,
                      Tracked(daemon, CliMount, o.branches, notifiers))
             ELSE LET info == NotifySwitched(daemon.mounts[CliMount], CliMount, parent) IN
                  Cli(op, parent, "ok", o, info.notifiers,
                      [daemon EXCEPT !.mounts[CliMount] =
                          [info EXCEPT !.branches = o.branches]])

CliCommit == CliEnd("cli_commit", CmdCommit)
CliAbort == CliEnd("cli_abort", CmdAbort)

\* The client closes the connection: handle_client returns to the loop of run.
Disconnect ==
    /\ daemon.at = "client"
    /\ daemon' = [daemon EXCEPT !.at = "accept"]
    /\ UNCHANGED <<branches, store, base, epoch, opened, wedged, views, last, steps, limit,
                   faulty, notifiers, calls>>

\* Daemon::run: the loop finds the shutdown flag set and breaks.
Exit ==
    /\ daemon.at = "accept" /\ daemon.shutdown
    /\ daemon' = [daemon EXCEPT !.at = "exited"]
    /\ UNCHANGED <<branches, store, base, epoch, opened, wedged, views, last, steps, limit,
                   faulty, notifiers, calls>>

\* ------------------------------------------------------------ specification
NoLast ==
    [op |-> "none", cmd |-> NoVal, v |-> "mgr", kind |-> "mgr", br |-> NoName,
     stale |-> FALSE, reply |-> "none", val |-> NoVal,
     pre |-> [tree |-> <<>>, epoch |-> 0],
     inval |-> {}]

\* The counter of ctl numbers after k calls of fetch_add(1) on the value
\* BranchFs::new gave it, u64::MAX - 1_000_000, in 64 bits.
AfterUsed(k) == IF k <= 1000000 THEN Hi(1000000 - k) ELSE Lo(k - 1000001)

\* BranchManager::new on a storage directory whose state file holds a tree of
\* branches without changes yet, and BranchFs::new for each mount on one of
\* them; used: how many ctl numbers a view may have given out before.
InitWith(mounts, bases, stores, f, max, used) ==
    /\ base \in bases
    /\ store \in stores
    /\ \E tree \in StateTrees :
          branches = [n \in DOMAIN tree |-> BranchNew(store, n, tree[n])]
    /\ \A n \in StoreNames \ DOMAIN branches : store[n] = NoBranchDir
    /\ epoch = 0
    /\ opened = <<>>
    /\ wedged = "none"
    /\ views \in [mounts -> {[NewView(n, 0) EXCEPT !.next_ctl_ino = AfterUsed(k)] :
                                  n \in Names, k \in used}]
    /\ \A v \in mounts : is_branch_valid(branches, views[v].branch_name)
    /\ last = NoLast
    /\ steps = 0
    /\ limit = max
    /\ faulty = f
    /\ notifiers = {<<views[v].branch_name, v>> : v \in mounts}
    /\ daemon = [mounts |-> <<>>, shutdown |-> FALSE, at |-> "accept", asked |-> FALSE]
    /\ calls = [t \in Threads |-> [pc |-> "idle"]]

Init == InitWith({"M1"}, BaseStates, {EmptyStore}, FALSE, MaxSteps, {0})

Next ==
    \/ CreateBranch
    \/ Commit
    \/ Abort
    \/ AbortSingle
    \/ \E v \in DOMAIN views : Lookup(v)
    \/ \E v \in DOMAIN views : Getattr(v)
    \/ \E v \in DOMAIN views : Read(v)
    \/ \E v \in DOMAIN views : Write(v)
    \/ \E v \in DOMAIN views : WriteCtl(v)
    \/ \E v \in DOMAIN views : Readdir(v)
    \/ \E v \in DOMAIN views : Create(v)
    \/ \E v \in DOMAIN views : Mkdir(v)
    \/ \E v \in DOMAIN views : Unlink(v)
    \/ \E v \in DOMAIN views : Rmdir(v)
    \/ \E v \in DOMAIN views : Open(v)
    \/ \E v \in DOMAIN views : Setattr(v)
    \/ \E v \in DOMAIN views : Ioctl(v)

Spec == Init /\ [][Next]_vars

\* Two mounts sharing one manager.
SpecTwo ==
    InitWith(Mounts, {FullBase}, {EmptyStore}, FALSE, MaxStepsTwo, {0}) /\ [][Next]_vars

\* One mount on a storage whose I/O can fail.
SpecFault ==
    InitWith({"M1"}, BaseStates, {EmptyStore}, TRUE, MaxStepsFault, {0}) /\ [][Next]_vars

\* One mount on a storage whose branch directories already hold changes.
SpecStored ==
    InitWith({"M1"}, BaseStates, StoredStates, FALSE, MaxStepsStored, {0}) /\ [][Next]_vars

\* One mount whose view has given ctl numbers to branches before: used of
\* them, each by one fetch_add on the counter BranchFs::new started, to names
\* that are gone from the branch set.
SpecWorn ==
    InitWith({"M1"}, {FullBase}, {EmptyStore}, FALSE, MaxStepsWorn,
             {0, 1, 999999, 1000000, 1000001, 1000002, 1000003}) /\ [][Next]_vars

\* One mount, or two sharing one manager, whose notifiers can fail: the
\* manager's calls, and the lookups and opens that fill the opened-inode sets.
NextNotify ==
    \/ CreateBranch
    \/ Commit
    \/ Abort
    \/ AbortSingle
    \/ \E v \in DOMAIN views : Lookup(v)
    \/ \E v \in DOMAIN views : Open(v)
SpecNotify ==
    /\ \/ InitWith({"M1"}, {FullBase}, {EmptyStore}, TRUE, MaxStepsNotify, {0})
       \/ InitWith(Mounts, {FullBase}, {EmptyStore}, TRUE, MaxStepsNotifyTwo, {0})
    /\ [][NextNotify]_vars

\* One mount whose create at a root path is served in two steps, with the
\* manager's calls coming from another thread.
NextCreate ==
    \/ CreateBranch
    \/ Commit
    \/ Abort
    \/ AbortSingle
    \/ \E v \in DOMAIN views : CreateBegin("T1", v)
    \/ CreateEnd("T1")
SpecCreate ==
    InitWith({"M1"}, BaseStates, {EmptyStore}, FALSE, MaxStepsCreate, {0})
        /\ [][NextCreate]_vars

\* Two mounts sharing one manager, each with its session thread; a write is
\* served in three steps.
NextWrite ==
    \/ \E v \in DOMAIN views : Lookup(v)
    \/ WriteBegin("T1", "M1")
    \/ WriteBegin("T2", "M2")
    \/ \E t \in Threads : WriteCopy(t)
    \/ \E t \in Threads : WriteEnd(t)
SpecWrite ==
    InitWith(Mounts, {FullBase}, {EmptyStore}, FALSE, MaxStepsWrite, {0})
        /\ [][NextWrite]_vars

\* Two threads on one view's inode table, their calls a step at a time.
NextInode ==
    \/ \E t \in Threads : GocRead(t)
    \/ \E t \in Threads : GocLockPath(t)
    \/ \E t \in Threads : GocLockIno(t)
    \/ \E t \in Threads : GocCheck(t)
    \/ \E t \in Threads : GocInsertPath(t)
    \/ \E t \in Threads : GocInsertInfo(t)
    \/ \E t \in Threads : DropLockPath(t)
    \/ \E t \in Threads : DropLockIno(t)
    \/ \E t \in Threads : DropPathEntries(t)
    \/ \E t \in Threads : DropInfoEntries(t)
    \/ \E t \in Threads : GetIno(t)
    \/ \E t \in Threads : GetPath(t)
SpecInode ==
    InitWith({InodeView}, {FullBase}, {EmptyStore}, FALSE, MaxStepsInode, {0})
        /\ [][NextInode]_vars

\* The CLI's commands on one mount, one after the other.
NextCli ==
    \/ CliMounted
    \/ CliCreate
    \/ CliCommit
    \/ CliAbort
SpecCli ==
    InitWith({CliMount}, {FullBase}, {EmptyStore}, FALSE, MaxStepsCli, {0})
        /\ [][NextCli]_vars

\* An invalidating call of the manager in one thread and, meanwhile, the
\* mount's session in a second and the daemon's calls on the notifiers in a
\* third.
NextLocks ==
    \/ \E v \in DOMAIN views : Lookup(v)
    \/ InvalidatingCall("T1")
    \/ InvalLockNotifiers("T1")
    \/ InvalLockOpened("T1")
    \/ InvalInode("T1")
    \/ InvalInodeReturn("T1")
    \/ InvalDone("T1")
    \/ OpenBegin("T2")
    \/ OpenRegister("T2")
    \/ NotifierBegin("T3")
    \/ NotifierChange("T3")
SpecLocks ==
    InitWith({"M1"}, {FullBase}, {EmptyStore}, FALSE, MaxStepsLocks, {0})
        /\ [][NextLocks]_vars

\* A commit in one thread, a file at a time, and the mount's session in a
\* second, on a storage whose branch directories already hold changes.
NextCommit ==
    \/ \E v \in DOMAIN views : Lookup(v)
    \/ CommitLock("T1")
    \/ CommitDelete("T1")
    \/ CommitCreate("T1")
    \/ CommitFill("T1")
    \/ CommitFinish("T1")
    \/ BranchReaddirBegin("T2")
    \/ BranchReaddirBase("T2")
    \/ BranchReaddirEnd("T2")
    \/ RootReadBegin("T2")
    \/ RootReadFile("T2")
    \/ RootReadEpoch("T2")
    \/ RootReadEnd("T2")
SpecCommit ==
    InitWith({"M1"}, {FullBase}, StoredStates, FALSE, MaxStepsCommit, {0})
        /\ [][NextCommit]_vars

\* The daemon alone: its requests and its run loop, before any mount.
NextDaemon ==
    \/ Accept
    \/ DMount
    \/ DUnmount
    \/ DCreate
    \/ DNotifySwitch
    \/ DList
    \/ DShutdown
    \/ Disconnect
    \/ Exit
SpecDaemon ==
    InitWith({}, {FullBase}, {EmptyStore}, FALSE, MaxStepsDaemon, {0}) /\ [][NextDaemon]_vars

\* The same with the clients of the daemon closing their connections, as
\* send_request does once it has read the response, and the loop of run going on.
SpecDaemonLive == SpecDaemon /\ WF_vars(Disconnect) /\ WF_vars(Exit)

\* ------------------------------------------------------------------ claims
IsCommit(l) ==
    \/ l.op = "commit"
    \/ l.op = "ctl" /\ to_lowercase(Trim(l.cmd)) = CmdCommit
    \/ l.op = "ioctl" /\ l.cmd = <<BRANCHFS_IOC_COMMIT>>
IsAbort(l) ==
    \/ l.op = "abort"
    \/ l.op = "ctl" /\ to_lowercase(Trim(l.cmd)) = CmdAbort
    \/ l.op = "ioctl" /\ l.cmd = <<BRANCHFS_IOC_ABORT>>
Succeeded(l) == l.reply = "ok"

\* The chain, from the branch of the last operation to main, in the tree the
\* manager held when the operation came.
PreBranches(l) == [n \in DOMAIN l.pre.tree |-> [parent |-> l.pre.tree[n]]]
PreChain(l) == get_branch_chain(PreBranches(l), l.br)
PreChainSet(l) == {PreChain(l).chain[i] : i \in 1..Len(PreChain(l).chain)}

\* C1: every branch in the branch set other than main has a parent that is
\* itself in the branch set.
C1_ParentInSet ==
    \A b \in DOMAIN branches \ {MAIN} : branches[b].parent \in DOMAIN branches

\* C2: a commit that returns success has added exactly 1 to the epoch and has
\* left main alone in the branch set, whatever the tree was.
C2_CommitResetsTree ==
    (IsCommit(last) /\ Succeeded(last))
        => (epoch = last.pre.epoch + 1 /\ DOMAIN branches = {MAIN})

\* A commit succeeded on a tree that held a branch outside the committed chain.
C2_Witness ==
    /\ IsCommit(last) /\ Succeeded(last)
    /\ last.br # MAIN
    /\ \E n \in DOMAIN last.pre.tree : n \notin PreChainSet(last)

\* A step that is a commit, or an abort, returning success; the unprimed
\* variables are the state it found.
CommitStep == steps' # steps /\ IsCommit(last') /\ Succeeded(last')
AbortStep == steps' # steps /\ IsAbort(last') /\ Succeeded(last')

\* The branches from b to main in the current tree.
ChainOf(b) ==
    LET c == get_branch_chain(branches, b) IN {c.chain[i] : i \in 1..Len(c.chain)}
TombstonedIn(some, p) == \E n \in some \cap DOMAIN branches : is_deleted(branches, n, p)

\* What p resolves to through b, and whether that is a regular file of a
\* branch's delta directory.
Visible(b, p) == NodeAt(store, base, resolve_path(branches, store, base, b, p), p)
VisibleDelta(b, p) ==
    resolve_path(branches, store, base, b, p).tag = "delta" /\ Visible(b, p).kind = "file"

C4_AbortFrame ==
    [][AbortStep =>
        LET gone == ChainOf(last'.br) \ {MAIN} IN
        /\ epoch' = epoch
        /\ base' = base
        /\ DOMAIN branches' = DOMAIN branches \ gone
        /\ \A n \in DOMAIN branches \ gone :
              /\ branches'[n] = branches[n]
              /\ store'[n] = store[n]
              /\ \A p \in Paths : Visible(n, p)' = Visible(n, p)]_vars

\* C5: the epoch changes only by a commit that returns success, which adds
\* exactly 1 to it; every other step, a commit or an abort that returns an
\* error included, leaves it as it was.
C5_EpochBySuccessfulCommitOnly ==
    [][epoch' = IF CommitStep THEN epoch + 1 ELSE epoch]_vars

\* The reference walk: the branches met from b by following parents, the first
\* of them that holds a tombstone or a delta for p deciding; the base when
\* none does.
RECURSIVE RefChain(_, _)
RefChain(b, fuel) ==
    IF fuel = 0 \/ b \notin DOMAIN branches THEN <<>>
    ELSE <<b>> \o RefChain(branches[b].parent, fuel - 1)
RefResolve(b, p) ==
    LET ch == RefChain(b, Fuel)
        hits == {i \in 1..Len(ch) :
                    is_deleted(branches, ch[i], p) \/ has_delta(store, ch[i], p)}
    IN IF hits = {}
       THEN (IF BaseNode(base, p).kind # "none" THEN Res("base", NoName)
             ELSE Res("none", NoName))
       ELSE LET i == CHOOSE j \in hits : \A k \in hits : j <= k IN
            IF is_deleted(branches, ch[i], p) THEN Res("none", NoName)
            ELSE Res("delta", ch[i])

\* C6: for every branch b in the set and every path p, resolve_path(b, p) is
\* the result of the reference walk; a path in b's tombstones is absent.
C6_ResolveIsReferenceWalk ==
    \A b \in DOMAIN branches, p \in Paths :
        /\ resolve_path(branches, store, base, b, p) = RefResolve(b, p)
        /\ is_deleted(branches, b, p)
              => resolve_path(branches, store, base, b, p) = Res("none", NoName)

\* The requests that change a branch's files or tombstones, and the branches
\* that see such a change made in b: b and the branches whose chain holds b.
MutatingOps == {"write", "create", "mkdir", "unlink", "rmdir", "setattr"}
BranchOpStep == steps' # steps /\ last'.op \in MutatingOps
SelfAndDescendants(b) == {n \in DOMAIN branches : b \in ChainOf(n)}
IsolatedFrom(b) ==
    \A n \in DOMAIN branches \ SelfAndDescendants(b) :
        \A p \in Paths : Visible(n, p)' = Visible(n, p)

\* C7 (as stated): a write, create, mkdir, unlink or truncate through b
\* changes neither the base nor what any path resolves to through a branch
\* that is neither b nor a descendant of b; the base changes by a commit that
\* returns success only; an abort of b leaves what resolves through main.
C7_BranchOpsIsolated ==
    [][/\ BranchOpStep => (base' = base /\ IsolatedFrom(last'.br))
       /\ base' # base => CommitStep
       /\ AbortStep => \A p \in Paths : Visible(MAIN, p)' = Visible(MAIN, p)]_vars

\* C7 (amended): the same, the base changing by a commit only, whether the
\* commit returns success or an error.
C7_BranchOpsIsolatedCommitOnly ==
    [][/\ BranchOpStep => (base' = base /\ IsolatedFrom(last'.br))
       /\ base' # base => (steps' # steps /\ IsCommit(last'))
       /\ AbortStep => \A p \in Paths : Visible(MAIN, p)' = Visible(MAIN, p)]_vars

\* A request through a branch other than main succeeded and left a path that
\* resolves through that branch to something else than through main, where
\* it still resolves to what the base holds.
C7_Witness ==
    /\ last.op \in MutatingOps /\ Succeeded(last)
    /\ last.br \in DOMAIN branches \ {MAIN}
    /\ \E p \in Paths :
          /\ Visible(last.br, p) # Visible(MAIN, p)
          /\ Visible(MAIN, p) = BaseNode(base, p)
          /\ Visible(MAIN, p).kind # "none"

\* The requests on regular paths.
RegularOps ==
    {"lookup", "getattr", "read", "write", "create", "mkdir", "unlink", "rmdir",
     "setattr", "open", "readdir"}

\* C8: with M1 and M2 on the same branch, once a commit through M1's ctl file
\* or ioctl has succeeded the next request on a regular path of M2 is replied
\* ESTALE.
C8_PeerStaleAfterCommit ==
    [][(/\ IsCommit(last) /\ Succeeded(last)
        /\ last.v = "M1" /\ last.kind = "RootCtl"
        /\ "M2" \in DOMAIN views /\ last.br = views["M2"].branch_name
        /\ steps' # steps
        /\ last'.v = "M2" /\ last'.kind = "RootPath" /\ last'.op \in RegularOps)
       => last'.reply = "ESTALE"]_vars

\* C9: after a successful abort, a view whose branch the abort removed is
\* stale; a view that was not stale and whose branch is still in the set is
\* not stale and resolves every path to what it resolved to before.
C9_AbortKeepsOthersCoherent ==
    [][AbortStep =>
        \A v \in DOMAIN views \ {last'.v} :
            LET b == views[v].branch_name IN
            IF b \notin DOMAIN branches'
            THEN is_stale(views'[v], branches', epoch')
            ELSE ~Stale(views[v]) =>
                    /\ ~is_stale(views'[v], branches', epoch')
                    /\ \A p \in Paths : Visible(b, p)' = Visible(b, p)]_vars

\* C10: a request on a regular root path that finds its view stale is replied
\* ESTALE and has changed nothing in the storage.
C10_StaleChecksFirst ==
    [][(/\ steps' # steps
        /\ last'.stale
        /\ last'.op \in RegularOps
        /\ \/ last'.kind = "RootPath"
           \/ last'.kind = "Root" /\ last'.op = "readdir")
       => (last'.reply = "ESTALE" /\ UNCHANGED <<branches, store, base>>)]_vars


\* A write of switch:<name> to the root ctl file, and the name it gives.
IsSwitch(l) ==
    /\ l.op = "ctl" /\ l.kind = "RootCtl"
    /\ StartsWith(to_lowercase(Trim(l.cmd)), <<"switch:">>)
SwitchName(l) == Trim(Tail(Trim(l.cmd)))
\* An inode table that holds the root alone.
OnlyRoot(it) == DOMAIN it.path_to_ino = {RootPath} /\ DOMAIN it.ino_to_info = {ROOT_INO}

\* lookup, open and write of the root ctl file never reply ESTALE.
RootCtlNeverStale ==
    (last.kind = "RootCtl" /\ last.op \in {"lookup", "open", "ctl"}) => last.reply # "ESTALE"

\* switch:<name> with a name in the branch set succeeds and leaves the view on
\* <name>, at the manager's epoch, with the root alone in its inode table, Fresh.
SwitchRecovers ==
    (IsSwitch(last) /\ SwitchName(last) \in DOMAIN last.pre.tree)
        => /\ last.reply = "ok"
           /\ views[last.v].branch_name = SwitchName(last)
           /\ views[last.v].current_epoch = epoch
           /\ OnlyRoot(views[last.v].inodes)
           /\ ~Stale(views[last.v])

\* A view leaves Stale only by a switch, or a commit or abort, that succeeded
\* through it.
StaleLeftBySwitchOnly ==
    \A v \in DOMAIN views :
        (Stale(views[v]) /\ ~Stale(views[v])')
            => /\ last'.v = v /\ Succeeded(last')
               /\ IsSwitch(last') \/ (last'.op \in {"ctl", "ioctl"}
                                      /\ (IsCommit(last') \/ IsAbort(last')))

\* C11: a stale view can always be recovered: the root ctl file never replies
\* ESTALE to lookup, open or write; switch:<name> to a branch in the set
\* succeeds and leaves the view on it, Fresh, at the current epoch, with only
\* the root in its inode table; and nothing but such a switch or a successful
\* commit or abort through the view takes a view out of Stale.
C11_StaleViewRecovery ==
    [][/\ RootCtlNeverStale' /\ SwitchRecovers' /\ StaleLeftBySwitchOnly]_vars


\* The last operation was a commit or an abort asked through a mount (a write
\* to a ctl file or an ioctl) and it replied success.
ThroughMount(l) ==
    /\ l.op \in {"ctl", "ioctl"}
    /\ IsCommit(l) \/ IsAbort(l)
    /\ Succeeded(l)

\* C12: after a commit or abort of branch b that succeeded through a mount,
\* the mount's view is on the branch that was b's parent before the operation.
C12_SwitchedToParent ==
    ThroughMount(last) => views[last.v].branch_name = last.pre.tree[last.br]


\* C13: immediately after a commit or abort asked through a mount's ctl file
\* or ioctl replied success, that mount's view is Fresh: it holds the
\* manager's epoch and its branch is in the branch set.
C13_FreshAfterCommitOrAbort ==
    ThroughMount(last)
        => /\ views[last.v].current_epoch = epoch
           /\ views[last.v].branch_name \in DOMAIN branches


\* Every fault a manager call may meet, whatever the storage.
AnyFault == {"none", "copy", "newmain", "save"}

\* Two outcomes that report alike and leave the manager and the view alike.
SameOutcome(a, b) ==
    /\ a.reply = b.reply
    /\ a.branches = b.branches /\ a.epoch = b.epoch /\ a.base = b.base
    /\ a.store = b.store
    /\ a.view.branch_name = b.view.branch_name
    /\ a.view.current_epoch = b.view.current_epoch
    /\ a.view.inodes = b.view.inodes

\* C14: from every reachable state, ioctl COMMIT / ABORT and a write of commit /
\* abort to the root ctl file report alike (success, EIO) and leave the branch
\* set, epoch, base and the view's branch, epoch and inode table alike; any
\* other ioctl number replies ENOTTY and changes nothing.
C14_IoctlEqualsCtlWrite ==
    \A v \in DOMAIN views, f \in AnyFault :
        /\ SameOutcome(ioctl(views[v], BRANCHFS_IOC_COMMIT, f),
                       write(views[v], CTL_INO, 0, CmdCommit, f))
        /\ SameOutcome(ioctl(views[v], BRANCHFS_IOC_ABORT, f),
                       write(views[v], CTL_INO, 0, CmdAbort, f))
        /\ \A cmd \in IoctlCommands \ {BRANCHFS_IOC_COMMIT, BRANCHFS_IOC_ABORT} :
              ioctl(views[v], cmd, f) = Same("ENOTTY", views[v])

\* An ioctl commit succeeded on a branch nested under another, from a view
\* that held inodes besides the root.
C14_Witness ==
    /\ last.op = "ioctl" /\ IsCommit(last) /\ Succeeded(last)
    /\ last.pre.tree[last.br] # MAIN
    /\ views[last.v].inodes.next_ino # InodeNew.next_ino


\* The names the specification refuses: empty, "." or "..", holding "/" or a
\* NUL byte, starting with "@" (the names of the model are shorter than 255 bytes).
InvalidName(name) ==
    \/ name = <<>>
    \/ name \in {<<".">>, <<"..">>}
    \/ \E i \in 1..Len(name) : name[i] \in {"/", "NUL"}
    \/ Head(name) = "@"

\* A create_branch(name, parent) step that must fail does, and leaves the
\* branch set, the deltas, the tombstones and the epoch as they were; one
\* that must succeed adds the branch with that parent and nothing else.
CreateBranchAsSpecified(must_fail) ==
    LET name == last'.br
        parent == last'.cmd
    IN IF must_fail
       THEN last'.reply = "err" /\ UNCHANGED <<branches, store, epoch, base>>
       ELSE /\ last'.reply = "ok"
            /\ DOMAIN branches' = DOMAIN branches \cup {name}
            /\ branches'[name].parent = parent
            /\ \A n \in DOMAIN branches : branches'[n] = branches[n]
            /\ UNCHANGED <<store, epoch, base>>

\* C15: create_branch(name, parent) fails and changes nothing when the name is
\* invalid, the name is in the branch set or the parent is not; otherwise it
\* adds exactly one branch, with that parent, and changes nothing else.
C15_CreateBranchValidates ==
    [][(steps' # steps /\ last'.op = "create_branch")
          => CreateBranchAsSpecified(\/ InvalidName(last'.br)
                                     \/ last'.br \in DOMAIN branches
                                     \/ last'.cmd \notin DOMAIN branches)]_vars


\* The error a commit or abort reports: Err from the manager, EIO from a mount.
Refused(l) == l.reply = (IF l.op \in {"ctl", "ioctl"} THEN "EIO" ELSE "err")

\* C16: commit and abort of main, or of a name that is not in the branch set,
\* return an error; abort_single of main or of an absent name returns success;
\* in all these cases the branch set, the base, the epoch and every view stay
\* as they were, so a ctl or ioctl request refused this way switches no view.
C16_MainAndAbsentRefused ==
    [][(steps' # steps /\ (last'.br = MAIN \/ last'.br \notin DOMAIN branches))
          => /\ (IsCommit(last') \/ IsAbort(last'))
                    => Refused(last') /\ UNCHANGED <<branches, base, epoch, views>>
             /\ last'.op = "abort_single"
                    => Succeeded(last') /\ UNCHANGED <<branches, base, epoch, views>>]_vars

\* A commit or abort written to a ctl file or asked by ioctl was refused
\* because the branch was not in the branch set.
C16_Witness ==
    /\ last.op \in {"ctl", "ioctl"}
    /\ IsCommit(last) \/ IsAbort(last)
    /\ last.br # MAIN /\ last.br \notin DOMAIN last.pre.tree
    /\ Refused(last)


\* What the texts of CtlCommands say, read by hand: which are commit, which
\* are abort, and which are switch and to what name (NoName: to none).
SaysCommit(d) == d \in {<<"commit">>, <<"COMMIT", "\n">>}
SaysAbort(d) == d \in {<<"abort">>, <<" ", "Abort">>}
SaysSwitch(d) ==
    d \in {CmdSwitch(n) : n \in Names}
          \cup {<<"SWITCH:", " ", "b1">>, <<"switch:", "\n">>, <<"switch:", "B1">>}
SwitchTarget(d) ==
    CASE d = <<"SWITCH:", " ", "b1">> -> B1
      [] d = <<"switch:", "\n">> -> NoName
      [] OTHER -> Tail(d)
Rejected(l) == l.reply \in {"EINVAL", "ENOENT"}

\* C17: a write to a ctl file is accepted only when its trimmed text is commit
\* or abort in any letter case or, on the root ctl file, switch:<branch> with a
\* branch of the branch set; switch: to an absent name replies ENOENT, any
\* other text (switch: without a name, switch: on a per-branch ctl file) replies
\* EINVAL; a rejected write leaves the view and the manager's state unchanged.
C17_CtlWriteParsing ==
    [][(steps' # steps /\ last'.op = "ctl")
          => LET d == last'.cmd
                 root == last'.kind = "RootCtl"
             IN /\ (SaysCommit(d) \/ SaysAbort(d)) => ~Rejected(last')
                /\ (root /\ SaysSwitch(d))
                      => last'.reply = (IF SwitchTarget(d) = NoName THEN "EINVAL"
                                        ELSE IF SwitchTarget(d) \in DOMAIN branches THEN "ok"
                                        ELSE "ENOENT")
                /\ (~SaysCommit(d) /\ ~SaysAbort(d) /\ ~(root /\ SaysSwitch(d)))
                      => last'.reply = "EINVAL"
                /\ Rejected(last')
                      => UNCHANGED <<views, branches, store, base, epoch, opened>>]_vars

\* switch:<branch> written to a per-branch ctl file was rejected.
C17_Witness ==
    /\ last.op = "ctl" /\ last.kind = "BranchCtl"
    /\ SaysSwitch(last.cmd) /\ SwitchTarget(last.cmd) \in DOMAIN branches
    /\ last.reply = "EINVAL"


\* The numbers an inode table holds, and its counter, as integers (the tables
\* of the model stay far from u64::MAX).
Held(it) == {i.n : i \in DOMAIN it.ino_to_info}
NextOf(it) == it.next_ino.n

\* C18: within one mount no inode number is handed out twice: the counter never
\* goes back, every number held is below it, every number that appears in the
\* table is at or above the counter before the step (so above every number
\* handed out before), and a number that stays keeps its path -- through
\* get_or_create, remove, clear_prefix and clear.
C18_InodeNumbersNeverReused ==
    [][\A v \in DOMAIN views :
          LET old == views[v].inodes
              new == views'[v].inodes
          IN /\ ~new.next_ino.top /\ NextOf(new) >= NextOf(old)
             /\ \A n \in Held(new) : n < NextOf(new)
             /\ \A n \in Held(new) \ Held(old) : n >= NextOf(old)
             /\ \A i \in DOMAIN new.ino_to_info \cap DOMAIN old.ino_to_info :
                   new.ino_to_info[i].path = old.ino_to_info[i].path
             /\ \A q \in DOMAIN new.path_to_ino :
                   /\ new.path_to_ino[q] \in DOMAIN new.ino_to_info
                   /\ new.ino_to_info[new.path_to_ino[q]].path = q]_vars

\* A number was handed out after an earlier one had been freed: the table
\* holds the root and the second number allocated, nothing else.
C18_Witness ==
    /\ last.op \in {"lookup", "create", "mkdir"} /\ Succeeded(last)
    /\ last.v \in DOMAIN views
    /\ DOMAIN views[last.v].inodes.ino_to_info = {ROOT_INO, Lo(3)}


\* C19: in every reachable state and for every branch, no path is both in the
\* branch's tombstone set and present as a delta of that branch.
C19_NoTombstonedDelta ==
    \A b \in DOMAIN branches, p \in Paths :
        ~(is_deleted(branches, b, p) /\ has_delta(store, b, p))


\* C20: in every reachable state the branch main has an empty delta directory
\* and an empty tombstone set.
C20_MainStaysEmpty ==
    /\ store[MAIN].files = EmptyFiles
    /\ MAIN \in DOMAIN branches => branches[MAIN].tombstones = {}


\* lookup of @<n> by view vw under the directory parent replies an entry.
AtResolves(vw, parent, n) == lookup(vw, parent, <<"@">> \o n).reply = "ok"
\* The names a readdir of the mount root may list, whatever the order.
RootListed(vw) ==
    UNION {LET o == readdir(vw, ROOT_INO, order, border)
           IN {o.val[i] : i \in 1..Len(o.val)} :
               order \in Perms(Paths), border \in Perms(StoreNames \ {MAIN})}

\* Under the mount root @<n> resolves for exactly the non-main branches of the
\* branch set, and the root listing never holds @main.
AtRootExactlyNonMain(vw) ==
    /\ \A n \in Names :
          AtResolves(vw, ROOT_INO, n) <=> (n # MAIN /\ n \in DOMAIN branches)
    /\ <<"@">> \o MAIN \notin RootListed(vw)
\* Under the root of a branch @<n> resolves only for a direct child of it.
AtBranchOnlyChildren(vw) ==
    \A parent \in TopInos(vw) \ {ROOT_INO}, n \in Names :
        AtResolves(vw, parent, n)
            => /\ n \in DOMAIN branches
               /\ branches[n].parent = classify_path(get_path(vw.inodes, parent)).branch

\* C21: /@main is never reachable: lookup of @main under the mount root
\* replies ENOENT and the root readdir never lists it, @<name> resolves there
\* for exactly the non-main branches of the set, and under a branch root
\* @<child> resolves only for a direct child of that branch.
C21_MainNotReachable ==
    \A v \in DOMAIN views :
        AtRootExactlyNonMain(views[v]) /\ AtBranchOnlyChildren(views[v])


\* The tombstones and deltas of every branch, as the step found and left them.
SameTombstonesAndDeltas ==
    /\ store' = store
    /\ DOMAIN branches' = DOMAIN branches
    /\ \A b \in DOMAIN branches : branches'[b].tombstones = branches[b].tombstones

\* C22: unlink or rmdir of an @<child> entry or of .branchfs_ctl replies EPERM
\* in every parent context and adds no tombstone and removes no delta.
C22_SyntheticEntriesNotUnlinked ==
    [][(steps' # steps /\ last'.op \in {"unlink", "rmdir"}
        /\ last'.kind \in {"RootCtl", "BranchCtl", "BranchDir"})
          => last'.reply = "EPERM" /\ SameTombstonesAndDeltas]_vars


\* The paths of the synthetic entries: the @branch directories and the ctl
\* files under the root and under a branch root.
SyntheticPaths ==
    {CtlPath} \cup {BranchDirPath(n) : n \in StoreNames}
              \cup {BranchDirPath(n) \o CtlPath : n \in StoreNames}

\* C23: in every reachable state no control file and no virtual @branch
\* directory holds a number of the inode table's dense range, and no branch's
\* delta directory nor the base holds a node named .branchfs_ctl or @<name>.
C23_SyntheticNeverRegularNorMaterialized ==
    /\ \A v \in DOMAIN views :
           DOMAIN views[v].inodes.path_to_ino \cap SyntheticPaths = {}
    /\ \A b \in DOMAIN store : DeltaNode(store, b, CtlPath) = Absent
    /\ base[CtlPath] = Absent


\* A create_branch that succeeded.
CreatedStep == steps' # steps /\ last'.op = "create_branch" /\ last'.reply = "ok"

\* The branch just created has an empty delta directory and an empty tombstone
\* set, and resolves every path as its parent does.
StartsEmpty ==
    LET name == last'.br
        parent == last'.cmd
    IN /\ store'[name] = NoBranchDir
       /\ branches'[name].tombstones = {}
       /\ \A p \in Paths : resolve_path(branches', store', base', name, p)
                             = resolve_path(branches', store', base', parent, p)

\* C24: a branch created after a commit, an abort or an abort_single, also
\* under a name used before, starts with an empty delta directory and an
\* empty tombstone set and resolves every path exactly as its parent does.
C24_ReusedNameStartsEmpty == [][CreatedStep => StartsEmpty]_vars


\* The run loop has ended.
Exited == daemon.at = "exited"
\* An Unmount request has just left the mount table empty.
LastMountRemoved ==
    last.op = "unmount" /\ last.reply = "ok" /\ DOMAIN daemon.mounts = {}
\* The loop does not end with a mount tracked unless Shutdown was requested.
NoExitWhileMounted ==
    [](Exited /\ ~daemon.asked => DOMAIN daemon.mounts = {})
\* An Unmount of an untracked mountpoint fails and leaves the daemon as it was.
UntrackedUnmountFails ==
    [][(steps' # steps /\ last'.op = "unmount" /\ last'.v \notin DOMAIN daemon.mounts)
          => last'.reply = "err" /\ daemon' = daemon]_vars

\* C25: after an Unmount request that leaves the mount table empty the run
\* loop eventually terminates; it never terminates while a mount is tracked
\* and no Shutdown was requested; an Unmount of an untracked mountpoint fails
\* and changes nothing.
C25_ExitsOnceLastMountRemoved ==
    /\ LastMountRemoved ~> Exited
    /\ NoExitWhileMounted
    /\ UntrackedUnmountFails


\* The ctl numbers a view has given to branches.
BranchCtlInos(vw) == {vw.branch_ctl_inodes[n] : n \in DOMAIN vw.branch_ctl_inodes}

\* C26: the branch ctl numbers go down from 2^64 - 10^6, no two branch names
\* hold the same one, and however many were given out none of them is ROOT,
\* ROOT_CTL or a number of the inode table's dense range, and none is past a
\* wrap of the 64-bit counter.
C26_BranchCtlInosApart ==
    \A v \in DOMAIN views :
        LET vw == views[v] IN
        /\ \A n, m \in DOMAIN vw.branch_ctl_inodes :
               vw.branch_ctl_inodes[n] = vw.branch_ctl_inodes[m] => n = m
        /\ \A i \in BranchCtlInos(vw) :
               /\ i.top /\ i.n >= 999999
               /\ i # ROOT_INO /\ i # CTL_INO
               /\ i \notin DOMAIN vw.inodes.ino_to_info


\* No step takes a tombstone from a branch that is in the set before and after.
TombstonesKept ==
    \A b \in DOMAIN branches \cap DOMAIN branches' :
        branches[b].tombstones \subseteq branches'[b].tombstones

\* How many lines of a log name the path.
LinesFor(log, p) == Cardinality({i \in 1..Len(log) : log[i] = p})

\* add_tombstone(p) called twice on a branch leaves the set and the log that
\* one call leaves, and a path new to the set has one line in the log.
AddTwiceAsOnce ==
    \A b \in DOMAIN branches, p \in Paths :
        LET brs1 == add_tombstone(branches, b, p)
            st1 == LogTombstone(branches, store, b, p)
            brs2 == add_tombstone(brs1, b, p)
            st2 == LogTombstone(brs1, st1, b, p)
        IN /\ brs2 = brs1
           /\ st2 = st1
           /\ p \in brs2[b].tombstones
           /\ p \notin branches[b].tombstones
                 => LinesFor(st2[b].log, p) = LinesFor(store[b].log, p) + 1

\* C27: within a live branch the tombstone set only grows, whatever operation
\* comes through the filesystem, and add_tombstone(p) followed by
\* add_tombstone(p) leaves the same set and the same log, with one line for p,
\* as a single call.
C27_TombstonesOnlyGrow == []AddTwiceAsOnce /\ [][TombstonesKept]_vars

\* An unlink has put a tombstone on a branch and its line in the log.
C27_Witness ==
    /\ last.op = "unlink" /\ last.reply = "ok"
    /\ \E b \in DOMAIN branches :
           branches[b].tombstones # {} /\ Len(store[b].log) = Cardinality(branches[b].tombstones)


\* An unlink or rmdir whose append to the tombstone log failed.
AppendFailed ==
    steps' # steps /\ last'.op \in {"unlink", "rmdir"} /\ last'.cmd = <<"append">>
\* An unlink or rmdir that succeeded.
Unlinked == steps' # steps /\ last'.op \in {"unlink", "rmdir"} /\ last'.reply = "ok"

\* The unlink fails and leaves tombstones, deltas and every resolution alone.
NothingDone ==
    /\ last'.reply # "ok"
    /\ SameTombstonesAndDeltas
    /\ \A b \in DOMAIN branches, p \in Paths :
           resolve_path(branches', store', base', b, p)
             = resolve_path(branches, store, base, b, p)
\* Every tombstone of every branch has its line in the log.
AllLogged ==
    \A b \in DOMAIN branches' :
        branches'[b].tombstones \subseteq load_tombstones(store'[b].log)

\* C28: when the append to the tombstone log fails, the unlink fails, the
\* in-memory set is not updated and the delta is not removed, so that every
\* path resolves as before; an unlink that succeeds, a retry included, leaves
\* the line in the log.
C28_FailedAppendChangesNothing ==
    [][(AppendFailed => NothingDone) /\ (Unlinked => AllLogged)]_vars


\* A commit that failed while it copied the deltas into the base.
FailedInCopy == steps' # steps /\ last'.op = "commit" /\ last'.cmd = <<"copy">>

\* C29: a commit that fails part-way through materializing deletions or
\* deltas into the base returns an error and leaves the branch set cleared
\* (no branch but main), with the base partially updated.
C29_FailedCommitClearsBranches ==
    [][FailedInCopy => last'.reply = "err" /\ DOMAIN branches' \subseteq {MAIN}]_vars

\* The keys of the notifiers the last call invalidated.
Invalidated == {<<c.branch, c.mountpoint>> : c \in last.inval}

\* Every inode registered as opened, under whatever branch.
OpenedInos == UNION {opened[b] : b \in DOMAIN opened}

\* A call of the manager that has just returned Ok.
ReturnedOk(op) == last'.op = op /\ last'.reply = "ok" /\ steps' = steps + 1

CommitReachesAll ==
    ReturnedOk("commit") =>
        \A k \in notifiers, i \in {ROOT_INO} \cup OpenedInos :
            \E c \in last'.inval : c.branch = k[1] /\ c.mountpoint = k[2] /\ c.ino = i

AbortReachesChain ==
    ReturnedOk("abort") =>
        Invalidated' = {k \in notifiers :
                           k[1] \in NonMainOf(get_branch_chain(branches, last'.br).chain)}

AbortSingleReachesOne ==
    ReturnedOk("abort_single") => Invalidated' \subseteq {k \in notifiers : k[1] = last'.br}

NotifierFailureSwallowed ==
    /\ last'.op \in {"commit", "abort", "abort_single"}
    /\ steps' = steps + 1
    /\ \E c \in last'.inval : ~c.ok
    => /\ last'.reply = "ok"
       /\ last'.cmd = <<"notify">> =>
              /\ branches' = commit(branches, store, base, epoch, last'.br, "none").branches
              /\ base' = commit(branches, store, base, epoch, last'.br, "none").base
              /\ epoch' = epoch + 1

\* C30: a commit that succeeds calls every registered notifier for the root
\* inode and for each opened inode; an abort that succeeds calls exactly the
\* notifiers whose branch is in the aborted chain; abort_single calls only the
\* notifiers of its one branch; a notifier that fails leaves the commit or
\* abort a success.
C30_InvalidationReachesNotifiers ==
    [][/\ CommitReachesAll
       /\ AbortReachesChain
       /\ AbortSingleReachesOne
       /\ NotifierFailureSwallowed]_vars

\* The names a listing holds besides ".", "..", the ctl file and the @branch
\* directories.
OrdinaryNames(names) ==
    {names[i] : i \in 1..Len(names)} \cap (FileNames \cup DirNames)

NoNameTwice(names) == \A i, j \in 1..Len(names) : i # j => names[i] # names[j]

\* C36: in every reachable state, for every directory a view holds (the root,
\* through its branch, and the @branch directories), a readdir that succeeds
\* returns no name twice, and the ordinary names it returns are exactly the
\* names whose lookup in that directory succeeds.
C36_ReaddirAgreesWithLookup ==
    \A v \in DOMAIN views :
       \A ino \in TopInos(views[v]),
          order \in {CHOOSE o \in Perms(Paths) : TRUE},
          border \in {CHOOSE o \in Perms(StoreNames \ {MAIN}) : TRUE} :
          LET listed == readdir(views[v], ino, order, border) IN
          listed.reply = "ok" =>
             /\ NoNameTwice(listed.val)
             /\ OrdinaryNames(listed.val) =
                   {n \in FileNames \cup DirNames : lookup(views[v], ino, n).reply = "ok"}

\* The step was create(parent, name), or mkdir(parent, name), served by view v
\* with success.
CreatedBy(v, parent, name) ==
    /\ last'.op = "create" /\ last'.v = v /\ last'.reply = "ok" /\ steps' = steps + 1
    /\ create(views[v], parent, name).reply = "ok"
    /\ create(views[v], parent, name).view = views'[v]
    /\ create(views[v], parent, name).store = store'
MadeBy(v, parent, name) ==
    /\ last'.op = "mkdir" /\ last'.v = v /\ last'.reply = "ok" /\ steps' = steps + 1
    /\ mkdir(views[v], parent, name).reply = "ok"
    /\ mkdir(views[v], parent, name).view = views'[v]
    /\ mkdir(views[v], parent, name).store = store'
\* The step was write(ino, offset, data) on a file, served by view v with success.
WrittenBy(v, ino, offset, data) ==
    /\ last'.op = "write" /\ last'.v = v /\ last'.reply = "ok" /\ steps' = steps + 1
    /\ write(views[v], ino, offset, data, "none").reply = "ok"
    /\ write(views[v], ino, offset, data, "none").view = views'[v]
    /\ write(views[v], ino, offset, data, "none").store = store'

\* The parent and the name under which a view holds ino, the model's paths
\* being one level below the root or an @branch directory.
HeldUnder(vw, ino, parent, name) ==
    /\ parent \in TopInos(vw)
    /\ get_path(vw.inodes, ino) = ChildPath(get_path(vw.inodes, parent), name)

CreateThenVisible ==
    \A v \in DOMAIN views : \A parent \in TopInos(views[v]) :
       /\ \A name \in FileNames :
             CreatedBy(v, parent, name) => (lookup(views[v], parent, name).reply = "ok")'
       /\ \A name \in DirNames :
             MadeBy(v, parent, name) => (lookup(views[v], parent, name).reply = "ok")'

WriteThenVisible ==
    \A v \in DOMAIN views : \A ino \in FileInos(views[v]), offset \in {0, 1} :
       WrittenBy(v, ino, offset, <<"w">>) =>
          /\ (read(views[v], ino, offset, 1).reply = "ok")'
          /\ (read(views[v], ino, offset, 1).val = <<"w">>)'
          /\ \A parent \in TopInos(views[v]), name \in FileNames :
                HeldUnder(views[v], ino, parent, name) =>
                   (lookup(views[v], parent, name).reply = "ok")'

\* C37: a create, mkdir or write that succeeds on a path through a branch leaves
\* the path visible through that branch: in the state it leaves, a lookup of
\* the path succeeds and a read returns the bytes written, whatever happened to
\* the path before, an unlink in that branch included.
C37_VisibleAfterSuccess == [][CreateThenVisible /\ WriteThenVisible]_vars

\* A write, unlink or setattr at a root path has just replied ESTALE.
RepliedStale ==
    /\ last'.op \in {"write", "unlink", "setattr"}
    /\ last'.kind = "RootPath"
    /\ last'.reply = "ESTALE"
    /\ steps' = steps + 1

\* C38: a write, unlink or truncating setattr at a root path that replies
\* ESTALE leaves the deltas and the tombstones of every branch, main
\* included, as they were before the call.
C38_StaleReplyHasNoEffect ==
    [][RepliedStale => store' = store /\ branches' = branches]_vars

\* A create at a root path has just replied ESTALE, its view having gone stale
\* after the file was created on disk.
StaleAfterCreation(t) ==
    /\ calls[t].pc = "created" /\ calls'[t].pc = "idle"
    /\ ~calls[t].stale
    /\ last'.op = "create" /\ last'.reply = "ESTALE"

\* C35: when a create at a root path replies ESTALE because its view went stale
\* between the creation on disk and the reply, the delta directory of the
\* view's branch holds at the path what it held before the call, neither a new
\* file nor a delta less, and the view's inode table is as it was.
C35_StaleCreateLeavesNothing ==
    [][\A t \in Threads :
          StaleAfterCreation(t) =>
             /\ DeltaNode(store', calls[t].branch, calls[t].path) = calls[t].before
             /\ views'[calls[t].v].inodes = views[calls[t].v].inodes]_vars

\* Thread t has written to a file, and the write has landed.
Landed(t) == Idle(t) /\ "landed" \in DOMAIN calls[t] /\ calls[t].landed

\* The delta of the write of t holds its bytes where it wrote them.
HoldsBytesOf(t) ==
    LET c == calls[t]
        held == DeltaNode(store, c.branch, c.rel).data
    IN \A i \in 1..Len(c.data) : c.offset + i <= Len(held) /\ held[c.offset + i] = c.data[i]

\* Two writes to one path of one branch at disjoint offsets both show in the delta.
BothWritesKept ==
    \A t, u \in Threads :
       /\ t # u /\ Landed(t) /\ Landed(u)
       /\ calls[t].branch = calls[u].branch /\ calls[t].rel = calls[u].rel
       /\ calls[t].offset # calls[u].offset
       => HoldsBytesOf(t) /\ HoldsBytesOf(u)

\* A copy of the parent's content is made into a delta that is not there.
CopyIntoMissing ==
    \A t \in Threads :
       calls[t].pc = "checked" /\ calls'[t].pc = "copied" /\ store' # store
       => ~has_delta(store, calls[t].branch, calls[t].rel)

\* C33: writes to one path of one branch are serialised around copy-on-write:
\* the parent's content is copied into the delta once, before any write to the
\* path lands, so that two writes at disjoint offsets are both in the delta
\* and no copy made later takes a write away.
C33_WritesSerialisedAroundCow == []BothWritesKept /\ [][CopyIntoMissing]_vars

\* ---------------------------------------------------------------- C34
\* The two maps are mutual inverses: path p maps to i exactly when i's record
\* has path p.
MutualInverses(it) ==
    /\ \A p \in DOMAIN it.path_to_ino :
          /\ it.path_to_ino[p] \in DOMAIN it.ino_to_info
          /\ it.ino_to_info[it.path_to_ino[p]].path = p
    /\ \A i \in DOMAIN it.ino_to_info :
          /\ it.ino_to_info[i].path \in DOMAIN it.path_to_ino
          /\ it.path_to_ino[it.ino_to_info[i].path] = i

\* No thread holds the ino map's write lock without the path map's.
PathLockFirst ==
    \A t \in Threads : INO_LOCK \in WriteLocks(t) => PATH_LOCK \in WriteLocks(t)

\* The thread's next step is one it can take: the lock it asks for is free.
CanGoOn(t) ==
    /\ calls[t].pc = "goc_miss" => NoWriter(PATH_LOCK)
    /\ calls[t].pc \in {"goc_p", "drop_p"} =>
          \A l \in {PATH_LOCK, INO_LOCK} \ WriteLocks(t) : NoWriter(l)

\* While a call is under way, some call can take its next step.
NoTableDeadlock ==
    (\E t \in Threads : ~Idle(t)) => \E t \in Threads : ~Idle(t) /\ CanGoOn(t)

\* Both threads have returned from get_or_create calls for one path that were
\* under way at the same time.
Raced(t, u) ==
    /\ t # u
    /\ "how" \in DOMAIN calls[t] /\ "how" \in DOMAIN calls[u]
    /\ calls[t].path = calls[u].path
    /\ (u \in calls[t].with \/ t \in calls[u].with)

\* No removing call took the path out of the table during either call or since.
Uncut(t, u) == ~calls[t].cut /\ ~calls[u].cut

\* Both calls returned one number and at most one of them allocated it.
OneNumber(t, u) ==
    /\ calls[t].ret = calls[u].ret
    /\ ~(calls[t].how = "new" /\ calls[u].how = "new")

\* C34 as stated: under any interleaving of concurrent get_or_create, remove,
\* clear_prefix, clear, get_path and get_ino calls on one inode table, the ino
\* map's lock is never held without the path map's and some call can always go
\* on; get_or_create calls for one path that ran at the same time returned the
\* same number and allocated only one; and whenever no writer holds the locks
\* the two maps are mutual inverses.
C34_SameNumberWhateverIntervenes ==
    /\ PathLockFirst
    /\ NoTableDeadlock
    /\ \A t, u \in Threads : Raced(t, u) => OneNumber(t, u)
    /\ (\A t \in Threads : WriteLocks(t) = {}) => MutualInverses(views[InodeView].inodes)

\* C34, amended: as above, the get_or_create calls for one path that ran at
\* the same time returning the same number and allocating only one provided
\* that no remove, clear_prefix or clear took the path out of the table while
\* either was under way or between their returns.
C34_InodeTableUnderInterleaving ==
    /\ PathLockFirst
    /\ NoTableDeadlock
    /\ \A t, u \in Threads : Raced(t, u) /\ Uncut(t, u) => OneNumber(t, u)
    /\ (\A t \in Threads : WriteLocks(t) = {}) => MutualInverses(views[InodeView].inodes)

\* Two get_or_create calls for one path both missed it under the read lock;
\* one allocated the number, the other found it under the write locks; both
\* have returned and no writer holds a lock.
C34_BothMissedOneAllocated ==
    /\ \A t \in Threads : WriteLocks(t) = {}
    /\ \E t, u \in Threads :
          /\ Raced(t, u) /\ Uncut(t, u)
          /\ calls[t].how = "new" /\ calls[u].how = "check"

\* ---------------------------------------------------------------- C39
\* The manager of each tracked mount has exactly one notifier registered for
\* the mountpoint, under the branch the daemon holds the mount to be on.
OneNotifierPerMount ==
    \A mp \in DOMAIN daemon.mounts :
        {k \in daemon.mounts[mp].notifiers : k[2] = mp}
            = {<<daemon.mounts[mp].current_branch, mp>>}

\* A create, commit or abort of the CLI has just returned without an error.
CliCompleted == last.op \in {"cli_create", "cli_commit", "cli_abort"} /\ last.reply = "ok"

\* The branch the daemon holds the mount to be on is the branch of its view.
RecordedIsViewed(mp) == daemon.mounts[mp].current_branch = views[mp].branch_name

WaitsOn(t, u) ==
    /\ t # u /\ ~Idle(t) /\ ~Idle(u)
    /\ \/ calls[t].pc \in {"released", "want_notifiers"} /\ NOTIFIERS_LOCK \in WriteLocks(u)
       \/ calls[t].pc \in {"inval_n", "resolved"} /\ OPENED_LOCK \in WriteLocks(u)
       \/ /\ calls[t].pc = "in_inval" /\ calls[t].cb = "wanted"
          /\ calls[u].v = calls[t].cur.mountpoint

\* No thread waits on itself through other threads.
NoLockDeadlock ==
    \A t, u \in Threads :
        WaitsOn(t, u) => /\ ~WaitsOn(u, t)
                         /\ \A w \in Threads : ~(WaitsOn(u, w) /\ WaitsOn(w, t))

\* A thread that is invalidating does not hold the branch-tree write lock.
InvalidatesUnlocked ==
    \A t \in Threads :
        ~Idle(t) /\ calls[t].pc \in {"released", "inval_n", "inval", "in_inval"}
            => wedged # "write"

\* C31: in commit, abort and abort_single the invalidation is performed only
\* after the branch-tree write lock has been released, and no interleaving of
\* these operations with re-entrant callbacks, register_opened_inode and
\* register/unregister_notifier deadlocks.
C31_InvalidationNeverDeadlocks == InvalidatesUnlocked /\ NoLockDeadlock

\* ---------------------------------------------------------------- C32
\* A read or a readdir that went through its steps has replied with success.
ReaderReplied(t) ==
    /\ Idle(t) /\ "got" \in DOMAIN calls[t]
    /\ calls[t].reply = "ok"

\* What was replied is what the disk held as a whole either when the call
\* began or when it replied: for readdir the set of names listed, for read the
\* content of the file.
RepliedWhole(t) ==
    IF calls[t].op = "readdir" THEN calls[t].got \in calls[t].whole
    ELSE \E node \in calls[t].whole : node.kind = "file" /\ calls[t].got = Slice(node.data, 0, 2)

\* C32: a reader running concurrently with a commit cannot observe a
\* half-committed state: every successful read or readdir returns data that is
\* consistent either with the whole state before the commit or with the whole
\* state after it, never with a base in which only part of the commit's
\* deletions and deltas have been applied.
C32_NoHalfCommittedRead ==
    \A t \in Threads : ReaderReplied(t) => RepliedWhole(t)

====
